---- MODULE Spec2Model ----
(***************************************************************************)
(* A model of the ingest-relay core: the Redis rate limiter                *)
(* (relay-quotas/src/redis.rs), the per-key project cache                  *)
(* (relay-server/src/actors/project.rs) and the publisher of envelopes     *)
(* (relay-server/src/actors/store.rs).                                     *)
(*                                                                         *)
(* Option<T> values are sequences: <<>> is None and <<v>> is Some(v).      *)
(* Strings built by format! are sequences of string tokens, numbers being  *)
(* rendered digit by digit.                                                *)
(***************************************************************************)
EXTENDS Integers, Sequences, FiniteSets, TLC

VARIABLES
    \* ---- rate limiter (relay-quotas/src/redis.rs) ----
    redis,        \* the counter store: key -> [val, exp]; an absent key is not in the domain
    max_limit,    \* RedisRateLimiter.max_limit : Option<u64>
    now,          \* the wall clock, in seconds
    last,         \* the last is_rate_limited call: its inputs, the store before it, its result
    strict,       \* history of the script executions per counter key
    \* ---- project cache (relay-server/src/actors/project.rs) ----
    config,               \* Project.config : the cache durations of Config, in ticks
    clock,                \* the monotonic clock (Instant), in ticks
    state,                \* Project.state : Option<Arc<ProjectState>>
    state_channel,        \* Project.state_channel : Option<StateChannel>
    pending_validations,  \* Project.pending_validations
    pending_sampling,     \* Project.pending_sampling
    last_no_cache,        \* Project.last_no_cache
    upstream,             \* RequestUpdate messages sent to the ProjectCache, not yet answered
    nfetch,               \* the number of RequestUpdate messages sent so far
    delivered,            \* per sender of get_state: the project states sent to it
    flushed,              \* the envelopes flushed, with the states they were flushed with
    used,                 \* the numbers of senders and envelopes handed to the project so far
    plast,                \* the last call on the project: inputs, the project before it, result
    honoured,             \* the last honoured no_cache request and what followed it
    rate_limits,          \* Project.rate_limits : the cached rate limits
    \* ---- publisher (relay-server/src/actors/store.rs) ----
    uuids,                \* the number of version-4 UUIDs generated so far
    store_call            \* the last call on the publisher: inputs, messages sent, result

limiterVars == <<redis, max_limit, now, last, strict>>

projectVars ==
    <<config, clock, state, state_channel, pending_validations, pending_sampling, last_no_cache,
      upstream, nfetch, delivered, flushed, used, plast, honoured, rate_limits>>

storeVars == <<uuids, store_call>>

vars == <<limiterVars, projectVars, storeVars>>

(***************************************************************************)
(* Bounds of the model.                                                    *)
(***************************************************************************)
MaxLimit == 2      \* quota limits range over 1..MaxLimit
MaxQty == 2        \* quantities range over 0..MaxQty
MaxCount == 4      \* the counters of the store sum to at most MaxCount
MaxRefund == 1     \* the refund key holds 0 (absent) .. MaxRefund
StartTime == 100   \* the clock's value
Window == 2        \* the window of every tracked quota of the catalogue, in seconds
TicksPerSec == 2   \* the resolution of the project cache's clock
MaxClock == 4      \* the project cache's clock runs from 0 to MaxClock ticks
MaxSenders == 1    \* senders passed to get_state
MaxEnvelopes == 1  \* envelopes passed to enqueue_validation and enqueue_sampling
MaxFetches == 2    \* RequestUpdate messages sent
CacheExpiry == 2   \* Config::project_cache_expiry, in ticks
MissExpiry == 1    \* Config::cache_miss_expiry, in ticks
GracePeriod == 1   \* Config::project_grace_period, in ticks
MaxDuration == 2   \* the durations of the configurations tried on check_expiry, in ticks
LongExpiry == 100  \* Config::project_cache_expiry of test_stale_cache, in seconds
Early == 50        \* an instant before the long expiry, in seconds
Late == 101        \* an instant after the long expiry, in seconds
MaxItems == 2      \* items of an envelope handed to the publisher
MaxPayload == 3    \* bytes of an attachment's payload
MaxChunk == 2      \* Config::attachment_chunk_size ranges over 1..MaxChunk
MaxFail == 4       \* the producer's call that fails is one of the first MaxFail, or none
MaxUuids == 3      \* version-4 UUIDs generated
MaxStatusCount == 2  \* the count of one status in an entry of session aggregates
LimitUntil == 2    \* the instant, in ticks, until which a merged rate limit holds
MaxMetrics == 2    \* metrics or buckets in one call of rate_limit_metrics
MaxPrefetches == 3 \* RequestUpdate messages sent by a project that is only prefetched
MaxWindow == 3     \* the windows of the quotas tried on the window arithmetic range over 0..MaxWindow
MaxOrg == 3        \* organization ids tried on the window arithmetic range over 0..MaxOrg
MaxStamp == 5      \* timestamps tried on the window arithmetic range over 0..MaxStamp
WordBits == 6      \* the width of the unsigned integers of the window arithmetic
MaxSize == 6       \* the payload lengths tried on the chunk loop range over 0..MaxSize
MaxChunkSize == 3  \* Config::attachment_chunk_size tried on the chunk loop ranges over 0..MaxChunkSize
MaxIterations == 8 \* iterations of one chunk loop that are followed

(***************************************************************************)
(* Option<T>.                                                              *)
(***************************************************************************)
None == <<>>

Some(v) == <<v>>

IsSome(o) == Len(o) = 1

IsNone(o) == Len(o) = 0

Min(a, b) == IF a <= b THEN a ELSE b

(***************************************************************************)
(* Program constants.                                                      *)
(***************************************************************************)
GRACE == 60

REJECT_ALL_SECS == 60

(***************************************************************************)
(* Display of a u64, as format! renders it: its decimal digits.            *)
(***************************************************************************)
DigitChars == <<"0", "1", "2", "3", "4", "5", "6", "7", "8", "9">>

RECURSIVE Dec(_)
Dec(n) ==
    IF n < 10 THEN <<DigitChars[n + 1]>>
    ELSE Dec(n \div 10) \o <<DigitChars[(n % 10) + 1]>>

\* OptionalDisplay: Some(v) displays v, None displays nothing.
OptionalDisplay(o) == IF IsSome(o) THEN Dec(o[1]) ELSE <<>>

(***************************************************************************)
(* Scoping of the item being limited (the tests' scoping).                 *)
(***************************************************************************)
ItemScoping ==
    [category |-> "error", organization_id |-> 42, project_id |-> 43,
     project_key |-> "a94ae32be2584e0bbd7a4cbb95971fee", key_id |-> Some(44)]

\* ItemScoping::scope_id
ScopeId(scoping, scope) ==
    CASE scope = "Organization" -> Some(scoping.organization_id)
      [] scope = "Project" -> Some(scoping.project_id)
      [] scope = "Key" -> scoping.key_id
      [] OTHER -> None

\* Quota::matches: the quota's scope and categories apply to the item.
QuotaMatches(quota, scoping) ==
    /\ \/ IsNone(quota.scope_id)
       \/ ScopeId(scoping, quota.scope) = quota.scope_id
    /\ \/ quota.categories = {}
       \/ scoping.category \in quota.categories

(***************************************************************************)
(* RedisQuota (redis.rs:52-115).                                           *)
(***************************************************************************)
\* RedisQuota::new: Some iff the quota has an id and a window.
IsTrackable(quota) == IsSome(quota.id) /\ IsSome(quota.window)

\* RedisQuota::limit: -1 for unlimited, otherwise the limit value.
LimitBug(quota) == IF IsSome(quota.limit) THEN quota.limit[1] + 1 ELSE -1

\* RedisQuota::limit with a missing limit read as 0.
LimitOrZero(quota) == IF IsSome(quota.limit) THEN quota.limit[1] ELSE 0

Limit(quota) == IF IsSome(quota.limit) THEN quota.limit[1] ELSE -1

Shift(quota, scoping) == scoping.organization_id % quota.window[1]

\* RedisQuota::slot without the shift of the organization.
SlotUnshifted(quota, scoping, timestamp) == timestamp \div quota.window[1]

Slot(quota, scoping, timestamp) == (timestamp - Shift(quota, scoping)) \div quota.window[1]

Expiry(quota, scoping, timestamp) ==
    (Slot(quota, scoping, timestamp) + 1) * quota.window[1] + Shift(quota, scoping)

\* RedisQuota::key with the scope's id between the braces.
KeyTagScope(quota, scoping, timestamp) ==
    <<"quota:", quota.id[1], "{">> \o OptionalDisplay(ScopeId(scoping, quota.scope)) \o <<"}">>
        \o <<":">> \o Dec(Slot(quota, scoping, timestamp))

Key(quota, scoping, timestamp) ==
    LET subscope == IF quota.scope = "Organization" THEN None
                    ELSE ScopeId(scoping, quota.scope)
    IN  <<"quota:", quota.id[1], "{">> \o Dec(scoping.organization_id) \o <<"}">>
            \o OptionalDisplay(subscope) \o <<":">>
            \o Dec(Slot(quota, scoping, timestamp))

RefundKeyBug(counter_key) == counter_key

get_refunded_quota_key(counter_key) == <<"r:">> \o counter_key


(***************************************************************************)
(* RateLimit and RateLimits (rate_limit.rs): a Vec of rate limits; two are *)
(* equivalent iff their (categories, scope) match, and merging keeps the   *)
(* later retry_after.                                                      *)
(***************************************************************************)
\* RateLimitScope::for_quota
RateLimitScope(scoping, scope) ==
    CASE scope = "Organization" -> <<"Organization", Dec(scoping.organization_id)>>
      [] scope = "Project" -> <<"Project", Dec(scoping.project_id)>>
      [] OTHER -> <<"Key", <<scoping.project_key>>>>

\* RateLimit::from_quota
FromQuota(quota, scoping, retry_after) ==
    [categories |-> quota.categories,
     scope |-> RateLimitScope(scoping, quota.scope),
     reason_code |-> quota.reason_code,
     retry_after |-> retry_after]

Equivalent(a, b) == a.categories = b.categories /\ a.scope = b.scope

\* RateLimits::add
RateLimitsAdd(limits, limit) ==
    IF \E i \in 1..Len(limits) : Equivalent(limits[i], limit)
    THEN [i \in 1..Len(limits) |->
            IF Equivalent(limits[i], limit) /\ limits[i].retry_after < limit.retry_after
            THEN limit ELSE limits[i]]
    ELSE Append(limits, limit)

\* RateLimits::is_limited at instant `at`: some entry has retry_after > at.
IsLimited(limits, at) == \E i \in 1..Len(limits) : limits[i].retry_after > at

(***************************************************************************)
(* The counter-store script (is_rate_limited.lua), run atomically over a   *)
(* batch of tuples [key, refund_key, limit, expiry, quantity,              *)
(* over_accept_once].                                                      *)
(***************************************************************************)
\* GET with an absent value read as 0.
Get(store, k) == IF k \in DOMAIN store THEN store[k].val ELSE 0

Consumed(store, t) == Get(store, t.key) - Get(store, t.refund_key)

\* The decision for one tuple; limit -1 is unlimited. A quantity of 0 asks
\* whether the limit has been reached or exceeded.
Rejected(store, t) ==
    IF t.limit < 0 THEN FALSE
    ELSE IF t.quantity = 0 THEN Consumed(store, t) >= t.limit
    ELSE IF Consumed(store, t) + t.quantity > t.limit
         THEN ~(t.over_accept_once /\ Consumed(store, t) <= t.limit)
    ELSE FALSE

\* INCRBY, and the TTL set when the key is created.
IncrBy(store, t) ==
    IF t.quantity = 0 THEN store
    ELSE IF t.key \in DOMAIN store
         THEN [store EXCEPT ![t.key].val = @ + t.quantity]
    ELSE store @@ (t.key :> [val |-> t.quantity, exp |-> t.expiry])

RECURSIVE IncrAll(_, _)
IncrAll(store, batch) ==
    IF batch = <<>> THEN store
    ELSE IncrAll(IncrBy(store, Head(batch)), Tail(batch))

\* One execution of the script: the rejections (TRUE = rejected) aligned
\* with the batch, and the store after it; no key is incremented when any
\* tuple is rejected.
Script(store, batch) ==
    LET rejections == [i \in 1..Len(batch) |-> Rejected(store, batch[i])]
    IN  [rejections |-> rejections,
         store |-> IF \E i \in 1..Len(batch) : rejections[i]
                   THEN store ELSE IncrAll(store, batch)]

(***************************************************************************)
(* RedisRateLimiter::is_rate_limited (redis.rs:178-243).                   *)
(***************************************************************************)
\* RedisRateLimiter::retry_after: now + seconds, bounded by max_limit.
RetryAfter(seconds) ==
    now + (IF IsSome(max_limit) THEN Min(seconds, max_limit[1]) ELSE seconds)

\* The loop's third branch without the test of Quota::matches.
TrackedUnmatched(quotas, scoping) ==
    SelectSeq(quotas, LAMBDA q : q.limit # Some(0) /\ IsTrackable(q))

\* The quotas of the loop's third branch: matching, not zero-sized, trackable.
Tracked(quotas, scoping) ==
    SelectSeq(quotas, LAMBDA q : /\ QuotaMatches(q, scoping)
                                 /\ q.limit # Some(0)
                                 /\ IsTrackable(q))

\* The rate limits of the loop's second branch: matching zero-sized quotas.
RECURSIVE ZeroLimits(_, _, _)
ZeroLimits(quotas, scoping, limits) ==
    IF quotas = <<>> THEN limits
    ELSE LET q == Head(quotas)
         IN  ZeroLimits(Tail(quotas), scoping,
                 IF QuotaMatches(q, scoping) /\ q.limit = Some(0)
                 THEN RateLimitsAdd(limits, FromQuota(q, scoping, RetryAfter(REJECT_ALL_SECS)))
                 ELSE limits)

\* The script's keys and arguments for one tracked quota.
\* (First three variants: the two keys passed in the other order, the flag
\* dropped, the quantity forced to one.)
ScriptArgsSwapped(quota, scoping, timestamp, quantity, over_accept_once) ==
    [key |-> get_refunded_quota_key(Key(quota, scoping, timestamp)),
     refund_key |-> Key(quota, scoping, timestamp),
     limit |-> Limit(quota),
     expiry |-> Expiry(quota, scoping, timestamp) + GRACE,
     quantity |-> quantity,
     over_accept_once |-> over_accept_once]

ScriptArgsNoOver(quota, scoping, timestamp, quantity, over_accept_once) ==
    [key |-> Key(quota, scoping, timestamp),
     refund_key |-> get_refunded_quota_key(Key(quota, scoping, timestamp)),
     limit |-> Limit(quota),
     expiry |-> Expiry(quota, scoping, timestamp) + GRACE,
     quantity |-> quantity,
     over_accept_once |-> FALSE]

ScriptArgsQtyOne(quota, scoping, timestamp, quantity, over_accept_once) ==
    [key |-> Key(quota, scoping, timestamp),
     refund_key |-> get_refunded_quota_key(Key(quota, scoping, timestamp)),
     limit |-> Limit(quota),
     expiry |-> Expiry(quota, scoping, timestamp) + GRACE,
     quantity |-> IF quantity = 0 THEN 1 ELSE quantity,
     over_accept_once |-> over_accept_once]

ScriptArgs(quota, scoping, timestamp, quantity, over_accept_once) ==
    [key |-> Key(quota, scoping, timestamp),
     refund_key |-> get_refunded_quota_key(Key(quota, scoping, timestamp)),
     limit |-> Limit(quota),
     expiry |-> Expiry(quota, scoping, timestamp) + GRACE,
     quantity |-> quantity,
     over_accept_once |-> over_accept_once]

Batch(tracked, scoping, timestamp, quantity, over_accept_once) ==
    [i \in 1..Len(tracked) |->
        ScriptArgs(tracked[i], scoping, timestamp, quantity, over_accept_once)]

\* A limiter that sent one invocation per quota instead of one for the batch.
RECURSIVE InvokeEach(_, _)
InvokeEach(store, batch) ==
    IF batch = <<>> THEN [rejections |-> <<>>, store |-> store]
    ELSE LET one == Script(store, <<Head(batch)>>)
             rest == InvokeEach(one.store, Tail(batch))
         IN  [rejections |-> one.rejections \o rest.rejections, store |-> rest.store]

\* invocation.invoke: the whole batch in one execution of the script.
Invoke(store, batch) == Script(store, batch)

\* The rate limits of the rejected tracked quotas, added in order.
RECURSIVE RejectedLimits(_, _, _, _, _)
RejectedLimits(tracked, rejections, scoping, timestamp, limits) ==
    IF tracked = <<>> THEN limits
    ELSE RejectedLimits(Tail(tracked), Tail(rejections), scoping, timestamp,
             IF Head(rejections)
             THEN RateLimitsAdd(limits,
                      FromQuota(Head(tracked), scoping,
                          RetryAfter(Expiry(Head(tracked), scoping, timestamp) - timestamp)))
             ELSE limits)


(***************************************************************************)
(* The quotas the calls are made with (those of the tests of redis.rs).    *)
(***************************************************************************)
Quota(id, categories, scope, scope_id, limit, window, reason_code) ==
    [id |-> id, categories |-> categories, scope |-> scope, scope_id |-> scope_id,
     limit |-> limit, window |-> window, reason_code |-> reason_code]

\* test_zero_size_quotas: a reject-all quota without id and window.
ZeroQuota == Quota(None, {}, "Organization", None, Some(0), None, Some("get_lost"))

\* A reject-all quota of another category: it does not match the item.
ZeroOtherCategory ==
    Quota(None, {"transaction"}, "Organization", None, Some(0), None, Some("other_zero"))

\* test_limited_with_unlimited_quota: unlimited, but counted; here a quota
\* of the item's project and category.
UnlimitedQuota ==
    Quota(Some("u"), {"error"}, "Project", Some(43), None, Some(Window), Some("unlimited"))

\* test_simple_quota: an organization quota with limit l.
OrgQuota(l) ==
    Quota(Some("a"), {}, "Organization", None, Some(l), Some(Window), Some("org_quota"))

\* A quota of another category: it does not match the item.
OtherCategory ==
    Quota(Some("c"), {"transaction"}, "Organization", None, Some(1), Some(Window),
          Some("other_category"))

\* A quota with a limit but no id: neither reject-all nor trackable.
Untrackable ==
    Quota(None, {}, "Organization", None, Some(1), Some(Window), Some("untrackable"))

\* Reject-all quotas that do not cover the transactions of the project: one
\* of another project, one of another category.
ZeroOtherProject ==
    Quota(None, {"transaction"}, "Project", Some(99), Some(0), None, Some("other_project"))

ZeroErrors == Quota(None, {"error"}, "Organization", None, Some(0), None, Some("errors"))

\* The quotas that reject or are counted, and those the loop skips.
Enforced == {ZeroQuota, UnlimitedQuota} \cup {OrgQuota(l) : l \in 1..MaxLimit}

Skipped == {ZeroOtherCategory, OtherCategory, Untrackable}

\* The quota lists of a call: none, one quota, two enforced quotas with
\* different ids in either order, or a skipped quota beside an enforced one.
QuotaLists ==
    {<<>>} \cup {<<q>> : q \in Enforced \cup Skipped}
        \cup {pq \in Enforced \X Enforced : pq[1].reason_code # pq[2].reason_code}
        \cup (Skipped \X {OrgQuota(1), ZeroQuota})
        \cup ({OrgQuota(1)} \X Skipped)

\* The configured max_limit: none, zero, or a bound below the window.
MaxLimitConfigs == {None, Some(0), Some(Window - 1)}

(***************************************************************************)
(* History of the calls per counter key k, kept for the scenarios of the   *)
(* tests (test_simple_quota, test_quota_with_quantity, test_quota_go_over):*)
(*   plain    every script execution on k so far was a single-quota call   *)
(*            with over_accept_once = false, the limit lim >= 0, the same  *)
(*            quantity q >= 1 and no refund key;                           *)
(*   calls    the number of these calls, counted up to lim \div q + 1;     *)
(*   fixed    every execution on k so far used the limit lim;              *)
(*   crossed  the number of accepted executions that took the consumption  *)
(*            of k from at most lim to above lim, counted up to 2.         *)
(***************************************************************************)
StrictAfter(hist, store, batch, tracked, rejections) ==
    LET touched == {batch[i].key : i \in 1..Len(batch)}
        accepted == \A j \in 1..Len(batch) : ~rejections[j]
        Entry(k) ==
            LET i == CHOOSE j \in 1..Len(batch) : batch[j].key = k
                t == batch[i]
                limit == IF IsSome(tracked[i].limit) THEN tracked[i].limit[1] ELSE -1
                refund == <<"r:">> \o k
                before == Get(store, k) - Get(store, refund)
                cross == /\ accepted
                         /\ limit >= 0
                         /\ before <= limit
                         /\ before + t.quantity > limit
                simple == /\ Len(batch) = 1
                          /\ ~t.over_accept_once
                          /\ t.quantity >= 1
                          /\ limit >= 0
                          /\ refund \notin DOMAIN store
                first == k \notin DOMAIN hist
                plain == IF first THEN simple
                         ELSE /\ hist[k].plain
                              /\ simple
                              /\ hist[k].lim = limit
                              /\ hist[k].q = t.quantity
                fixed == first \/ (hist[k].fixed /\ hist[k].lim = limit)
                lim == IF first THEN limit ELSE hist[k].lim
            IN  [plain |-> plain,
                 lim |-> lim,
                 q |-> IF plain THEN t.quantity ELSE 0,
                 calls |-> IF ~plain THEN 0
                           ELSE IF first THEN 1
                           ELSE Min(hist[k].calls + 1, (lim \div t.quantity) + 1),
                 fixed |-> fixed,
                 crossed |-> IF ~fixed THEN 0
                             ELSE Min((IF first THEN 0 ELSE hist[k].crossed)
                                          + (IF cross THEN 1 ELSE 0), 2)]
    IN  [k \in DOMAIN hist \cup touched |-> IF k \in touched THEN Entry(k) ELSE hist[k]]

(***************************************************************************)
(* The project cache entry: Project of relay-server/src/actors/project.rs. *)
(* Instants and durations are counted in ticks of 1/TicksPerSec seconds.   *)
(***************************************************************************)
\* The public key the project is cached under, and that of its envelopes.
ProjectKey == "a94ae32be2584e0bbd7a4cbb95971fee"

\* ProjectState::missing(), created at instant t; rev tells apart the states
\* received from the upstream.
Missing(rev, t) ==
    [rev |-> rev, project_id |-> None, organization_id |-> None, disabled |-> TRUE,
     invalid |-> FALSE, public_keys |-> <<>>, last_fetch |-> t]

\* ProjectState::err().
Err(rev, t) == [Missing(rev, t) EXCEPT !.invalid = TRUE]

\* A project state parsed from the upstream's response.
Loaded(rev, t) ==
    [rev |-> rev, project_id |-> Some(1), organization_id |-> Some(1), disabled |-> FALSE,
     invalid |-> FALSE, public_keys |-> <<ProjectKey>>, last_fetch |-> t]

StateKinds == {"loaded", "err"}

Fetched(kind, rev, t) ==
    IF kind = "loaded" THEN Loaded(rev, t)
    ELSE IF kind = "missing" THEN Missing(rev, t)
    ELSE Err(rev, t)

\* ProjectState::check_expiry, a state expiring only after its expiry.
check_expiry_after(st, t) ==
    LET expiry == IF IsNone(st.project_id) THEN config.cache_miss_expiry
                  ELSE config.project_cache_expiry
        elapsed == t - st.last_fetch
    IN  IF elapsed > expiry + config.project_grace_period THEN "Expired"
        ELSE IF elapsed > expiry THEN "Stale"
        ELSE "Updated"

\* ProjectState::check_expiry, testing for Stale before Expired.
check_expiry_stale_first(st, t) ==
    LET expiry == IF IsNone(st.project_id) THEN config.cache_miss_expiry
                  ELSE config.project_cache_expiry
        elapsed == t - st.last_fetch
    IN  IF elapsed >= expiry THEN "Stale"
        ELSE IF elapsed >= expiry + config.project_grace_period THEN "Expired"
        ELSE "Updated"

\* ProjectState::check_expiry at instant t.
check_expiry(st, t) ==
    LET expiry == IF IsNone(st.project_id) THEN config.cache_miss_expiry
                  ELSE config.project_cache_expiry
        elapsed == t - st.last_fetch
    IN  IF elapsed >= expiry + config.project_grace_period THEN "Expired"
        ELSE IF elapsed >= expiry THEN "Stale"
        ELSE "Updated"

\* Project::expiry_state: the name of the ExpiryState variant.
expiry_state(held, t) == IF IsSome(held) THEN check_expiry(held[1], t) ELSE "Expired"

\* Project::valid_state.
valid_state(held, t) == IF expiry_state(held, t) = "Expired" THEN None ELSE held

\* StateChannel::new().
NewChannel == [senders |-> <<>>, no_cache |-> FALSE, requested |-> <<>>]

\* fetch_state's should_fetch, upgrading on every no_cache request.
ShouldFetchAlways(channel, no_cache) == IsNone(channel) \/ no_cache

\* fetch_state's should_fetch, true only for the upgrade of a running request.
ShouldFetchUpgrade(channel, no_cache) ==
    IsSome(channel) /\ ~channel[1].no_cache /\ no_cache

\* fetch_state's should_fetch, true whenever the request's flag differs from
\* that of the running request.
ShouldFetchOnChange(channel, no_cache) ==
    ~(IsSome(channel) /\ channel[1].no_cache = no_cache)

\* fetch_state's should_fetch: there is no running request, or the running
\* request must be upgraded to no_cache.
ShouldFetch(channel, no_cache) ==
    ~(IsSome(channel) /\ (channel[1].no_cache \/ ~no_cache))

\* Project::fetch_state: the channel after the call and the RequestUpdate
\* messages sent, each given by its no_cache flag.
fetch_state(channel, no_cache) ==
    LET ch == IF IsSome(channel) THEN channel[1] ELSE NewChannel
    IN  IF ShouldFetch(channel, no_cache)
        THEN [channel |-> Some([ch EXCEPT !.no_cache = no_cache,
                                          !.requested = Append(@, no_cache)]),
              sent |-> <<no_cache>>]
        ELSE [channel |-> Some(ch), sent |-> <<>>]

\* The throttle of get_or_fetch_state, comparing ticks with seconds.
ThrottledTicks(no_cache, elapsed) == no_cache /\ elapsed < 1

\* The throttle of get_or_fetch_state: a no_cache request degrades to a cached
\* one when the last honoured one is less than a second old.
Throttled(no_cache, elapsed) == no_cache /\ elapsed < TicksPerSec

\* get_or_fetch_state's cached_state, using only states that are up to date.
CachedStateFresh(no_cache, held, t) ==
    IF no_cache THEN None
    ELSE IF expiry_state(held, t) = "Updated" THEN held
    ELSE None

\* get_or_fetch_state's cached_state.
CachedState(no_cache, held, t) ==
    IF no_cache THEN None
    ELSE IF expiry_state(held, t) = "Expired" THEN None
    ELSE held

\* Project::get_or_fetch_state(no_cache) at instant t: the effective no_cache,
\* the new last_no_cache, the GetOrFetch variant (cached = Some(state) for
\* Cached, None for Scheduled), the channel and the messages sent.
get_or_fetch_state(no_cache, held, channel, lnc, t) ==
    LET nc == no_cache /\ ~Throttled(no_cache, t - lnc)
        cached == CachedState(nc, held, t)
        early == ~nc /\ expiry_state(held, t) = "Updated"
        f == fetch_state(channel, nc)
    IN  [no_cache |-> nc,
         last_no_cache |-> IF nc THEN t ELSE lnc,
         cached |-> cached,
         channel |-> IF early THEN channel ELSE f.channel,
         sent |-> IF early THEN <<>> ELSE f.sent]

\* The request meta of the envelopes: the DSN of this project, no origin.
Meta == [project_id |-> Some(1), origin |-> None, public_key |-> ProjectKey]

\* ProjectState::check_disabled, checking disabled before invalid.
check_disabled_disabled_first(st, t) ==
    IF check_expiry(st, t) = "Expired" THEN "Ok"
    ELSE IF st.disabled THEN "ProjectId"
    ELSE IF st.invalid THEN "ProjectState"
    ELSE "Ok"

\* ProjectState::check_disabled, checking expired states like the others.
check_disabled_closed(st, t) ==
    IF st.invalid THEN "ProjectState"
    ELSE IF st.disabled THEN "ProjectId"
    ELSE "Ok"

\* ProjectState::check_disabled: "Ok" or the discard reason.
check_disabled(st, t) ==
    IF check_expiry(st, t) = "Expired" THEN "Ok"
    ELSE IF st.invalid THEN "ProjectState"
    ELSE IF st.disabled THEN "ProjectId"
    ELSE "Ok"

\* ProjectState::check_request with Config::override_project_ids off and no
\* allowed domains configured: "Ok" or the discard reason.
check_request(st, meta, t) ==
    IF IsSome(st.project_id) /\ IsSome(meta.project_id) /\ st.project_id # meta.project_id
    THEN "ProjectId"
    ELSE IF IsSome(meta.origin) THEN "Cors"
    ELSE IF ~(IF st.public_keys # <<>> THEN st.public_keys[1] = meta.public_key
              ELSE IsNone(st.project_id))
    THEN "ProjectId"
    ELSE check_disabled(st, t)

\* RateLimits::clean_expired at instant t.
clean_expired(limits, t) == SelectSeq(limits, LAMBDA l : l.retry_after > t)

\* The rate limit the upstream reports for the project: transactions are
\* limited until instant LimitUntil.
TransactionLimit ==
    [categories |-> {"transaction"}, scope |-> <<"Organization", Dec(1)>>,
     reason_code |-> Some("upstream"), retry_after |-> LimitUntil]

\* Project::merge_rate_limits: RateLimits::merge adds every limit.
RECURSIVE merge_rate_limits(_, _)
merge_rate_limits(limits, merged) ==
    IF merged = <<>> THEN limits
    ELSE merge_rate_limits(RateLimitsAdd(limits, Head(merged)), Tail(merged))

\* Project::check_envelope for an envelope of error events, which neither
\* the cached limits on transactions nor a quota of the project config apply
\* to: the request check against the valid state.
check_envelope(held, t) ==
    LET st == valid_state(held, t)
    IN  IF IsSome(st) THEN check_request(st[1], Meta, t) ELSE "Ok"

\* Project::flush_validation of an envelope without a sampling key: the
\* record of what became of the envelope.
flush_validation(envelope, project_state, held, t) ==
    LET checked == check_envelope(held, t)
    IN  [envelope |-> envelope.id, via |-> "validation",
         result |-> IF checked = "Ok" THEN "processed" ELSE checked,
         project_state |-> Some(project_state), sampling_project_state |-> None]

\* Project::flush_sampling without the comparison of the organizations.
flush_sampling_any_org(message, held, t) ==
    [envelope |-> message.id, via |-> "sampling", result |-> "processed",
     project_state |-> None, organization_id |-> message.organization_id,
     sampling_project_state |-> valid_state(held, t)]

\* Project::flush_sampling: the ProcessEnvelope sent to the processor, with
\* the organization of the project state the message came with.
flush_sampling(message, held, t) ==
    LET st == valid_state(held, t)
    IN  [envelope |-> message.id, via |-> "sampling", result |-> "processed",
         project_state |-> None, organization_id |-> message.organization_id,
         sampling_project_state |->
             IF IsSome(st) /\ st[1].organization_id = message.organization_id
             THEN st ELSE None]

\* Project::scoping: Some iff a state is held and it has a project id; the
\* expiry of the state is not checked.
ProjectScoping(held) ==
    IF IsNone(held) \/ IsNone(held[1].project_id) THEN None
    ELSE Some([organization_id |-> IF IsSome(held[1].organization_id)
                                   THEN held[1].organization_id[1] ELSE 0,
               project_id |-> held[1].project_id[1],
               project_key |-> ProjectKey,
               key_id |-> None])

\* The item scoping the metrics limiter checks with: that of transactions.
TransactionScoping(project_scoping) ==
    [category |-> "transaction", organization_id |-> project_scoping.organization_id,
     project_id |-> project_scoping.project_id, project_key |-> project_scoping.project_key,
     key_id |-> project_scoping.key_id]

\* RateLimit::matches: the limit's categories and scope cover the item.
RateLimitMatches(limit, item_scoping) ==
    /\ limit.categories = {} \/ item_scoping.category \in limit.categories
    /\ limit.scope = RateLimitScope(item_scoping, limit.scope[1])

\* RateLimits::check_with_quotas followed by is_limited at instant t: a
\* reject-all quota matches the item, or a cached limit that has not expired.
check_with_quotas(limits, quotas, item_scoping, t) ==
    \/ \E i \in 1..Len(quotas) :
          quotas[i].limit = Some(0) /\ QuotaMatches(quotas[i], item_scoping)
    \/ \E i \in 1..Len(limits) :
          RateLimitMatches(limits[i], item_scoping) /\ limits[i].retry_after > t

\* MetricsLimiter::create: Err(metrics), here None, when no metric is of the
\* transaction namespace; otherwise the limiter.
MetricsLimiterCreate(metrics, quotas, project_scoping) ==
    IF \A i \in 1..Len(metrics) : metrics[i].namespace # "transactions" THEN None
    ELSE Some([metrics |-> metrics, quotas |-> quotas, scoping |-> project_scoping])

\* MetricsLimiter::enforce_limits(Ok(rate_limits)) and into_metrics: the
\* metrics of the transaction namespace are dropped when a limit is active.
enforce_limits(limiter, limits, t) ==
    IF check_with_quotas(limits, limiter.quotas, TransactionScoping(limiter.scoping), t)
    THEN SelectSeq(limiter.metrics, LAMBDA m : m.namespace # "transactions")
    ELSE limiter.metrics

\* Project::rate_limit_metrics applying the limiter whenever a state is held.
rate_limit_metrics_unscoped(held, limits, metrics, t) ==
    IF IsNone(held) THEN metrics
    ELSE LET project_scoping == [organization_id |-> 0, project_id |-> 0,
                                 project_key |-> ProjectKey, key_id |-> None]
             limiter == MetricsLimiterCreate(metrics, held[1].quotas,
                            IF IsSome(ProjectScoping(held)) THEN ProjectScoping(held)[1]
                            ELSE project_scoping)
         IN  IF IsSome(limiter) THEN enforce_limits(limiter[1], limits, t) ELSE metrics

\* Project::rate_limit_metrics
rate_limit_metrics(held, limits, metrics, t) ==
    IF IsNone(held) \/ IsNone(ProjectScoping(held)) THEN metrics
    ELSE LET limiter == MetricsLimiterCreate(metrics, held[1].quotas, ProjectScoping(held)[1])
         IN  IF IsSome(limiter) THEN enforce_limits(limiter[1], limits, t) ELSE metrics

\* The cached rate limits after Project::check_envelope: expired limits are
\* removed unless the request check fails first.
check_envelope_limits(limits, held, t) ==
    IF check_envelope(held, t) = "Ok" THEN clean_expired(limits, t) ELSE limits

RECURSIVE FlushValidations(_, _, _, _)
FlushValidations(queue, project_state, held, t) ==
    IF queue = <<>> THEN <<>>
    ELSE <<flush_validation(Head(queue), project_state, held, t)>>
             \o FlushValidations(Tail(queue), project_state, held, t)

RECURSIVE FlushSamplings(_, _, _)
FlushSamplings(queue, held, t) ==
    IF queue = <<>> THEN <<>>
    ELSE <<flush_sampling(Head(queue), held, t)>> \o FlushSamplings(Tail(queue), held, t)

\* update_state's test for a superseded answer, with the two flags exchanged.
SupersededSwapped(channel, no_cache) == ~channel[1].no_cache /\ no_cache

\* update_state's test for a superseded answer: the channel has no_cache set
\* but the answer is not one to a no_cache request.
Superseded(channel, no_cache) == channel[1].no_cache /\ ~no_cache

\* update_state's early returns without the one for a missing channel.
ReturnsEarlySuperseded(channel, no_cache) == IsSome(channel) /\ Superseded(channel, no_cache)

\* update_state's early returns: no channel, or a superseded answer.
ReturnsEarly(channel, no_cache) == IsNone(channel) \/ Superseded(channel, no_cache)

\* The channel after an early return, the taken channel not being put back.
AfterEarlyReturnTaken(channel) == None

\* The channel after an early return of update_state: take() left None where
\* there was none, and a superseded answer puts the taken channel back.
AfterEarlyReturn(channel) == channel

\* update_state's choice between the old and the new state, keeping every
\* usable old state.
KeepsOldAlways(held, new, t) == expiry_state(held, t) \in {"Updated", "Stale"}

\* update_state's choice between the old and the new state, keeping the old
\* state only while it is up to date.
KeepsOldFresh(held, new, t) == expiry_state(held, t) = "Updated" /\ new.invalid

\* update_state's choice: the new state is invalid but the old one still
\* usable.
KeepsOld(held, new, t) == expiry_state(held, t) \in {"Updated", "Stale"} /\ new.invalid

\* The record of the calls with no_cache = true of the last second: whether one
\* was honoured (at last_no_cache), the messages it sent and whether
\* update_state completed a fetch since; the instant of the last such call
\* (-1 for none), whether it was honoured and the messages it sent.
NoLog ==
    [hon |-> FALSE, hon_sent |-> 0, updated_since |-> FALSE,
     prev_at |-> -1, prev_honoured |-> FALSE, prev_sent |-> 0]

\* The running fetch as the last call found it.
ChannelKind(channel) ==
    IF IsNone(channel) THEN "none"
    ELSE IF channel[1].no_cache THEN "no_cache"
    ELSE "cached"

NoProjectCall ==
    [op |-> "none", no_cache |-> FALSE, effective |-> FALSE, sent |-> <<>>,
     result |-> None, arg |-> None, pre_expiry |-> "Expired", pre_channel |-> "none"]

\* The configuration of the project cache.
DefaultConfig ==
    [project_cache_expiry |-> CacheExpiry, cache_miss_expiry |-> MissExpiry,
     project_grace_period |-> GracePeriod]

\* Project::new at instant 0.
InitProjectVars ==
    /\ config = DefaultConfig
    /\ clock = 0
    /\ state = None
    /\ state_channel = None
    /\ pending_validations = <<>>
    /\ pending_sampling = <<>>
    /\ last_no_cache = 0
    /\ upstream = [b \in BOOLEAN |-> 0]
    /\ nfetch = 0
    /\ delivered = [s \in 1..MaxSenders |-> <<>>]
    /\ flushed = <<>>
    /\ used = [senders |-> 0, envelopes |-> 0]
    /\ plast = NoProjectCall
    /\ honoured = NoLog
    /\ rate_limits = <<>>

(***************************************************************************)
(* The publisher: StoreService of relay-server/src/actors/store.rs.        *)
(* A payload (Bytes) is a view [from, to) into the buffer src, which is    *)
(* named by the type of its item and its length; slice takes a sub-view.   *)
(* A UUID is a number, 0 being the nil UUID; Uuid::new_v4      *)
(* yields the next number never yielded before.                            *)
(***************************************************************************)
MAX_EXPLODED_SESSIONS == 100

Bytes(src, len) == [src |-> src, from |-> 0, to |-> len]

BytesLen(b) == b.to - b.from

\* Bytes::slice(begin, end)
Slice(b, begin, end) == [src |-> b.src, from |-> b.from + begin, to |-> b.from + end]

\* An item of an envelope: its type, its payload and what parsing the payload
\* yields (None when it does not parse; unused for the types not parsed).
Item(ty, len, parsed) == [ty |-> ty, payload |-> Bytes(<<ty, len>>, len), parsed |-> parsed]

\* The state of one run of handle_store_envelope: the messages sent so far,
\* the error that ended it if any, the ChunkedAttachments collected, the
\* UUIDs generated, the calls of the producer, the call that fails and the
\* message it failed to send, and whether a warning was logged.
NewRun(generated, fail_at) ==
    [out |-> <<>>, err |-> None, attachments |-> <<>>, uuid |-> generated, sends |-> 0,
     fail_at |-> fail_at, failed |-> None, warned |-> FALSE]

\* A missing value skipped over instead of ending the run.
FailSilently(run, error) == run

\* Leaving with an error: the ? operator and ok_or(...)?.
Fail(run, error) == IF IsSome(run.err) THEN run ELSE [run EXCEPT !.err = Some(error)]

\* StoreService::produce with the error of send_message dropped.
ProduceLossy(run, topic, message) ==
    IF IsSome(run.err) THEN run
    ELSE IF run.sends + 1 = run.fail_at
         THEN [run EXCEPT !.sends = @ + 1, !.failed = Some(message)]
    ELSE [run EXCEPT !.sends = @ + 1,
                     !.out = Append(@, [topic |-> topic, message |-> message])]

\* StoreService::produce: send_message fails with SendFailed or has the
\* message appended to its topic.
Produce(run, topic, message) ==
    IF IsSome(run.err) THEN run
    ELSE IF run.sends + 1 = run.fail_at
         THEN [run EXCEPT !.sends = @ + 1, !.err = Some("SendFailed"),
                          !.failed = Some(message)]
    ELSE [run EXCEPT !.sends = @ + 1,
                     !.out = Append(@, [topic |-> topic, message |-> message])]

\* The scoping of the envelope being stored.
StoreScoping == [organization_id |-> 42, project_id |-> 43, key_id |-> Some(44)]

\* is_slow_item counting replay recordings as slow.
is_slow_item_recording(item) ==
    item.ty = "attachment" \/ item.ty = "user_report" \/ item.ty = "replay_recording"

\* is_slow_item
is_slow_item(item) == item.ty = "attachment" \/ item.ty = "user_report"

\* Envelope::get_item_by: the first item satisfying the predicate, which is
\* given as the set of the positions whose item satisfies it.
GetItemBy(items, found) ==
    IF found = {} THEN None
    ELSE Some(items[CHOOSE i \in found : \A j \in found : i <= j])

IsEventItem(item) == item.ty \in {"event", "transaction", "security"}

\* The topic of the event and attachment messages (store.rs:129-135).
TopicOf(items) ==
    LET event_item == GetItemBy(items, {i \in 1..Len(items) : IsEventItem(items[i])})
    IN  IF IsSome(GetItemBy(items, {i \in 1..Len(items) : is_slow_item(items[i])}))
        THEN "Attachments"
        ELSE IF IsSome(event_item) /\ event_item[1].ty = "transaction" THEN "Transactions"
        ELSE "Events"

\* The loop of produce_attachment_chunks with every chunk of the full size.
RECURSIVE AttachmentChunkLoopFull(_, _, _, _, _, _, _)
AttachmentChunkLoopFull(run, store_config, event_id, id, item, offset, chunk_index) ==
    LET size == BytesLen(item.payload)
        chunk_size == store_config.attachment_chunk_size
    IN  IF IsSome(run.err) \/ ~(offset < size)
        THEN [run |-> run, chunk_index |-> chunk_index]
        ELSE AttachmentChunkLoopFull(
                 Produce(run, "Attachments",
                     [variant |-> "attachment_chunk",
                      payload |-> Slice(item.payload, offset, offset + chunk_size),
                      event_id |-> event_id,
                      project_id |-> StoreScoping.project_id,
                      id |-> id,
                      chunk_index |-> chunk_index]),
                 store_config, event_id, id, item, offset + chunk_size, chunk_index + 1)

\* The loop of produce_attachment_chunks (store.rs:264-277).
RECURSIVE AttachmentChunkLoop(_, _, _, _, _, _, _)
AttachmentChunkLoop(run, store_config, event_id, id, item, offset, chunk_index) ==
    LET payload == item.payload
        size == BytesLen(item.payload)
    IN  IF IsSome(run.err) \/ ~(offset < size)
        THEN [run |-> run, chunk_index |-> chunk_index]
        ELSE LET max_chunk_size == store_config.attachment_chunk_size
                 chunk_size == Min(max_chunk_size, size - offset)
                 attachment_message ==
                     [variant |-> "attachment_chunk",
                      payload |-> Slice(payload, offset, offset + chunk_size),
                      event_id |-> event_id,
                      project_id |-> StoreScoping.project_id,
                      id |-> id,
                      chunk_index |-> chunk_index]
             IN  AttachmentChunkLoop(Produce(run, "Attachments", attachment_message),
                     store_config, event_id, id, item, offset + chunk_size, chunk_index + 1)

\* produce_attachment_chunks: the run after it and the ChunkedAttachment.
produce_attachment_chunks(run, store_config, event_id, item) ==
    LET id == run.uuid + 1
        loop == AttachmentChunkLoop([run EXCEPT !.uuid = id], store_config, event_id, id,
                                    item, 0, 0)
    IN  [run |-> loop.run,
         attachment |-> [id |-> id, chunks |-> loop.chunk_index,
                         size |-> Some(BytesLen(item.payload))]]

\* produce_user_report
produce_user_report(run, event_id, item) ==
    Produce(run, "Attachments",
        [variant |-> "user_report", project_id |-> StoreScoping.project_id,
         event_id |-> event_id, payload |-> item.payload])

\* send_session_message
send_session_message(run, message) == Produce(run, "Sessions", message)

SessionKafkaMessage(session_id, status, quantity, errors) ==
    [variant |-> "session", session_id |-> session_id, status |-> status,
     quantity |-> quantity, errors |-> errors]

\* The body of the loop of produce_sessions_from_aggregate for one item
\* (store.rs:393-423): the message is mutated from one send to the next.
ExplodeItem(run, item) ==
    LET m0 == SessionKafkaMessage(0, "exited", 1, 0)
        m1 == IF item.exited > 0 THEN [m0 EXCEPT !.errors = 0, !.quantity = item.exited]
              ELSE m0
        r1 == IF item.exited > 0 THEN send_session_message(run, m1) ELSE run
        m2 == IF item.errored > 0
              THEN [m1 EXCEPT !.errors = 1, !.status = "errored", !.quantity = item.errored]
              ELSE m1
        r2 == IF IsNone(r1.err) /\ item.errored > 0 THEN send_session_message(r1, m2) ELSE r1
        m3 == IF item.abnormal > 0
              THEN [m2 EXCEPT !.errors = 1, !.status = "abnormal", !.quantity = item.abnormal]
              ELSE m2
        r3 == IF IsNone(r2.err) /\ item.abnormal > 0 THEN send_session_message(r2, m3) ELSE r2
        m4 == IF item.crashed > 0
              THEN [m3 EXCEPT !.errors = 1, !.status = "crashed", !.quantity = item.crashed]
              ELSE m3
    IN  IF IsNone(r3.err) /\ item.crashed > 0 THEN send_session_message(r3, m4) ELSE r3

\* aggregates.into_iter().take(MAX_EXPLODED_SESSIONS), from item i on.
RECURSIVE ExplodeLoop(_, _, _)
ExplodeLoop(run, aggregates, i) ==
    IF IsSome(run.err) \/ i > Len(aggregates) \/ i > MAX_EXPLODED_SESSIONS THEN run
    ELSE ExplodeLoop(ExplodeItem(run, aggregates[i]), aggregates, i + 1)

\* produce_sessions_from_aggregate
produce_sessions_from_aggregate(run, aggregates) ==
    ExplodeLoop([run EXCEPT !.warned = @ \/ Len(aggregates) > MAX_EXPLODED_SESSIONS],
                aggregates, 1)

\* produce_session_update
produce_session_update(run, session) ==
    send_session_message(run,
        SessionKafkaMessage(session.session_id, session.status, 1,
            IF session.status = "crashed" /\ session.errors = 0 THEN 1
            ELSE Min(session.errors, 65535)))

\* produce_sessions
produce_sessions(run, item) ==
    IF item.ty = "session"
    THEN IF IsNone(item.parsed) THEN run
         ELSE LET session == item.parsed[1]
              IN  produce_session_update(run,
                      IF session.status = "errored"
                      THEN [session EXCEPT !.status = "exited"] ELSE session)
    ELSE IF IsNone(item.parsed) THEN run
         ELSE produce_sessions_from_aggregate(run, item.parsed[1])

\* send_metric_message: the bucket's namespace selects the topic.
send_metric_message(run, namespace) ==
    CASE namespace = "transactions" ->
            Produce(run, "MetricsTransactions", [variant |-> "metric", name |-> namespace])
      [] namespace = "sessions" ->
            Produce(run, "MetricsSessions", [variant |-> "metric", name |-> namespace])
      [] OTHER -> run

\* produce_metrics: a payload that does not parse has no buckets.
RECURSIVE MetricLoop(_, _)
MetricLoop(run, buckets) ==
    IF IsSome(run.err) \/ buckets = <<>> THEN run
    ELSE MetricLoop(send_metric_message(run, Head(buckets)), Tail(buckets))

produce_metrics(run, item) ==
    MetricLoop(run, IF IsSome(item.parsed) THEN item.parsed[1] ELSE <<>>)

\* produce_profile
produce_profile(run, item) ==
    Produce(run, "Profiles",
        [variant |-> "profile", project_id |-> StoreScoping.project_id,
         payload |-> item.payload])

\* produce_replay_event
produce_replay_event(run, replay_id, item) ==
    Produce(run, "ReplayEvents",
        [variant |-> "replay_event", replay_id |-> replay_id,
         project_id |-> StoreScoping.project_id, payload |-> item.payload])

\* The loop of produce_replay_recording_chunks (store.rs:689-712).
RECURSIVE RecordingChunkLoop(_, _, _, _, _, _)
RecordingChunkLoop(run, replay_id, id, item, offset, chunk_index) ==
    LET payload == item.payload
        size == BytesLen(item.payload)
    IN  IF IsSome(run.err) \/ ~(offset < size)
        THEN [run |-> run, chunk_index |-> chunk_index]
        ELSE LET max_chunk_size == 1000 * 1000 - 2000
                 chunk_size == Min(max_chunk_size, size - offset)
                 replay_recording_chunk_message ==
                     [variant |-> "replay_recording_chunk",
                      payload |-> Slice(payload, offset, offset + chunk_size),
                      replay_id |-> replay_id,
                      project_id |-> StoreScoping.project_id,
                      id |-> id,
                      chunk_index |-> chunk_index]
             IN  RecordingChunkLoop(
                     Produce(run, "ReplayRecordings", replay_recording_chunk_message),
                     replay_id, id, item, offset + chunk_size, chunk_index + 1)

\* produce_replay_recording_chunks: the run after it and the ReplayRecordingChunkMeta.
produce_replay_recording_chunks(run, replay_id, item) ==
    LET id == run.uuid + 1
        loop == RecordingChunkLoop([run EXCEPT !.uuid = id], replay_id, id, item, 0, 0)
    IN  [run |-> loop.run,
         replay_recording |-> [id |-> id, chunks |-> loop.chunk_index,
                               size |-> Some(BytesLen(item.payload))]]

\* produce_replay_recording sending a payload of max_payload_size bytes in
\* one message.
produce_replay_recording_le(run, event_id, item) ==
    IF IsNone(event_id) THEN Fail(run, "NoEventId")
    ELSE IF BytesLen(item.payload) <= 1000 * 1000 - 2000
         THEN Produce(run, "ReplayRecordings",
                  [variant |-> "replay_recording_not_chunked",
                   replay_id |-> event_id[1],
                   project_id |-> StoreScoping.project_id,
                   payload |-> item.payload])
    ELSE LET chunked == produce_replay_recording_chunks(run, event_id[1], item)
         IN  Produce(chunked.run, "ReplayRecordings",
                 [variant |-> "replay_recording",
                  replay_id |-> event_id[1],
                  project_id |-> StoreScoping.project_id,
                  replay_recording |-> chunked.replay_recording])

\* produce_replay_recording
produce_replay_recording(run, event_id, item) ==
    LET max_message_size == 1000 * 1000
        max_message_metadata_size == 2000
        max_payload_size == max_message_size - max_message_metadata_size
    IN  IF BytesLen(item.payload) < max_payload_size
        THEN IF IsNone(event_id) THEN Fail(run, "NoEventId")
             ELSE Produce(run, "ReplayRecordings",
                      [variant |-> "replay_recording_not_chunked",
                       replay_id |-> event_id[1],
                       project_id |-> StoreScoping.project_id,
                       payload |-> item.payload])
        ELSE IF IsNone(event_id) THEN Fail(run, "NoEventId")
             ELSE LET chunked == produce_replay_recording_chunks(run, event_id[1], item)
                  IN  Produce(chunked.run, "ReplayRecordings",
                          [variant |-> "replay_recording",
                           replay_id |-> event_id[1],
                           project_id |-> StoreScoping.project_id,
                           replay_recording |-> chunked.replay_recording])

\* One iteration of the loop over the items (store.rs:139-197).
StoreItem(run, store_config, event_id, item) ==
    CASE item.ty = "attachment" ->
            IF IsNone(event_id) THEN Fail(run, "NoEventId")
            ELSE LET chunked == produce_attachment_chunks(run, store_config, event_id[1], item)
                 IN  IF IsSome(chunked.run.err) THEN chunked.run
                     ELSE [chunked.run EXCEPT !.attachments = Append(@, chunked.attachment)]
      [] item.ty = "user_report" ->
            IF IsNone(event_id) THEN Fail(run, "NoEventId")
            ELSE produce_user_report(run, event_id[1], item)
      [] item.ty \in {"session", "sessions"} -> produce_sessions(run, item)
      [] item.ty = "metric_buckets" -> produce_metrics(run, item)
      [] item.ty = "profile" -> produce_profile(run, item)
      [] item.ty = "replay_recording" -> produce_replay_recording(run, event_id, item)
      [] item.ty = "replay_event" ->
            IF IsNone(event_id) THEN Fail(run, "NoEventId")
            ELSE produce_replay_event(run, event_id[1], item)
      [] OTHER -> run

RECURSIVE ItemLoop(_, _, _, _)
ItemLoop(run, store_config, event_id, items) ==
    IF IsSome(run.err) \/ items = <<>> THEN run
    ELSE ItemLoop(StoreItem(run, store_config, event_id, Head(items)), store_config,
                  event_id, Tail(items))

\* The standalone attachment messages (store.rs:217-229).
RECURSIVE StandaloneLoop(_, _, _, _)
StandaloneLoop(run, topic, event_id, attachments) ==
    IF IsSome(run.err) \/ attachments = <<>> THEN run
    ELSE IF IsNone(event_id) THEN Fail(run, "NoEventId")
    ELSE StandaloneLoop(
             Produce(run, topic,
                 [variant |-> "attachment", event_id |-> event_id[1],
                  project_id |-> StoreScoping.project_id,
                  attachment |-> Head(attachments)]),
             topic, event_id, Tail(attachments))

\* handle_store_envelope: the run at its return.
handle_store_envelope(envelope, store_config, generated, fail_at) ==
    LET event_id == envelope.event_id
        event_item == GetItemBy(envelope.items,
                                {i \in 1..Len(envelope.items) : IsEventItem(envelope.items[i])})
        topic == TopicOf(envelope.items)
        looped == ItemLoop(NewRun(generated, fail_at), store_config, event_id, envelope.items)
    IN  IF IsSome(looped.err) THEN looped
        ELSE IF IsSome(event_item)
             THEN IF IsNone(event_id) THEN Fail(looped, "NoEventId")
                  ELSE Produce(looped, topic,
                           [variant |-> "event", payload |-> event_item[1].payload,
                            event_id |-> event_id[1],
                            project_id |-> StoreScoping.project_id,
                            attachments |-> looped.attachments])
        ELSE IF looped.attachments # <<>>
             THEN StandaloneLoop(looped, topic, event_id, looped.attachments)
        ELSE looped

InitStoreVars == uuids = 0 /\ store_call = [op |-> "none"]

(***************************************************************************)
(* The limiter's state machine.                                            *)
(***************************************************************************)
NoCall ==
    [op |-> "none", quotas |-> <<>>, quantity |-> 0, over_accept_once |-> FALSE,
     timestamp |-> 0, pre |-> <<>>, batch |-> <<>>, invoked |-> FALSE,
     rejections |-> <<>>, ok |-> TRUE, rate_limits |-> <<>>]

\* The refund key an upstream refund flow may have written before the calls:
\* that of the organization quota's counter.
RefundedKey == <<"r:">> \o Key(OrgQuota(1), ItemScoping, StartTime)

InitLimiter ==
    /\ \E r \in 0..MaxRefund :
          redis = IF r = 0 THEN <<>> ELSE (RefundedKey :> [val |-> r, exp |-> 0])
    /\ max_limit \in MaxLimitConfigs
    /\ now = StartTime
    /\ last = NoCall
    /\ InitStoreVars
    /\ strict = <<>>
    /\ InitProjectVars

\* The sum of the counters of keys ks.
RECURSIVE Total(_, _)
Total(store, ks) ==
    IF ks = {} THEN 0
    ELSE LET k == CHOOSE x \in ks : TRUE
         IN  (IF Head(k) = "r:" THEN 0 ELSE store[k].val) + Total(store, ks \ {k})

\* is_rate_limited(quotas, ItemScoping, quantity, over_accept_once) returning Ok.
IsRateLimited(quotas, quantity, over_accept_once) ==
    LET timestamp == now
        tracked == Tracked(quotas, ItemScoping)
        zero == ZeroLimits(quotas, ItemScoping, <<>>)
        batch == Batch(tracked, ItemScoping, timestamp, quantity, over_accept_once)
        call == [op |-> "is_rate_limited", quotas |-> quotas, quantity |-> quantity,
                 over_accept_once |-> over_accept_once, timestamp |-> timestamp,
                 pre |-> redis, batch |-> batch, invoked |-> FALSE,
                 rejections |-> <<>>, ok |-> TRUE, rate_limits |-> zero]
    IN  /\ last.op = "none"
        /\ Total(redis, DOMAIN redis) + Len(batch) * quantity <= MaxCount
        /\ IF tracked = <<>> \/ IsLimited(zero, now)
           THEN /\ last' = call
                /\ UNCHANGED <<redis, strict>>
           ELSE LET r == Invoke(redis, batch)
                IN  /\ redis' = r.store
                    /\ last' = [call EXCEPT
                                  !.invoked = TRUE,
                                  !.rejections = r.rejections,
                                  !.rate_limits = RejectedLimits(tracked, r.rejections,
                                                      ItemScoping, timestamp, zero)]
                    /\ strict' = StrictAfter(strict, redis, batch, tracked, r.rejections)
        /\ UNCHANGED <<max_limit, now>>
        /\ UNCHANGED <<projectVars, storeVars>>

\* is_rate_limited returning Err(RateLimitingError::Redis): no client, or the
\* invocation failed before the script ran.
IsRateLimitedErr(quotas, quantity, over_accept_once) ==
    LET tracked == Tracked(quotas, ItemScoping)
        zero == ZeroLimits(quotas, ItemScoping, <<>>)
    IN  /\ last.op = "none"
        /\ ~(tracked = <<>> \/ IsLimited(zero, now))
        /\ last' = [NoCall EXCEPT !.op = "is_rate_limited", !.pre = redis, !.ok = FALSE]
        /\ UNCHANGED <<redis, max_limit, now, strict>>
        /\ UNCHANGED <<projectVars, storeVars>>

\* The caller has consumed the result of the call; the next call may start.
Returned ==
    /\ last.op # "none"
    /\ last' = NoCall
    /\ UNCHANGED <<redis, max_limit, now, strict>>
    /\ UNCHANGED <<projectVars, storeVars>>

NextLimiter ==
    \/ \E quotas \in QuotaLists, quantity \in 0..MaxQty, over \in BOOLEAN :
          IsRateLimited(quotas, quantity, over)
    \/ \E quotas \in QuotaLists, quantity \in 0..MaxQty, over \in BOOLEAN :
          IsRateLimitedErr(quotas, quantity, over)
    \/ Returned

SpecLimiter == InitLimiter /\ [][NextLimiter]_vars

(***************************************************************************)
(* The limiter across a change of a quota's window. The organization quota *)
(* "a" is first enforced with a window of 1 second at second 50 and then   *)
(* with a window of 2 seconds at second 100: with the shift being 0 both   *)
(* fall into slot 50, so the same counter key is incremented with two      *)
(* different expiry arguments.                                             *)
(***************************************************************************)
WindowQuota(window) ==
    Quota(Some("a"), {}, "Organization", None, Some(MaxLimit), Some(window), Some("org_quota"))

WindowLists ==
    {<<WindowQuota(w)>> : w \in {1, 2}} \cup {<<WindowQuota(w), UnlimitedQuota>> : w \in {1, 2}}

InitWindow ==
    /\ \E r \in 0..MaxRefund :
          redis = IF r = 0 THEN <<>>
                  ELSE (get_refunded_quota_key(Key(WindowQuota(1), ItemScoping, 50))
                            :> [val |-> r, exp |-> 0])
    /\ max_limit = None
    /\ now = 50
    /\ last = NoCall
    /\ InitStoreVars
    /\ strict = <<>>
    /\ InitProjectVars

\* The clock reaches second 100.
Advance ==
    /\ now = 50
    /\ last.op = "none"
    /\ now' = 100
    /\ UNCHANGED <<redis, max_limit, last, strict>>
    /\ UNCHANGED <<projectVars, storeVars>>

NextWindow ==
    \/ \E quotas \in WindowLists, quantity \in 0..MaxQty, over \in BOOLEAN :
          IsRateLimited(quotas, quantity, over)
    \/ Returned
    \/ Advance

SpecWindow == InitWindow /\ [][NextWindow]_vars

(***************************************************************************)
(* The publisher's state machine: envelopes of up to MaxItems items drawn  *)
(* from StoreItems are handed to handle_store_envelope, whose producer     *)
(* fails at one of its calls or at none.                                   *)
(***************************************************************************)
\* The sizes of the replay recordings: around max_payload_size and beyond
\* two chunks.
RecordingSizes == {997999, 998000, 998001, 1996001}

StoreItems ==
    {Item(ty, 1, None) :
        ty \in {"event", "transaction", "user_report", "profile", "replay_event",
                "client_report", "session"}}
      \cup {Item("attachment", n, None) : n \in 0..MaxPayload}
      \cup {Item("replay_recording", n, None) : n \in RecordingSizes}
      \cup {Item("session", 1, Some([session_id |-> 1, status |-> "errored", errors |-> 0])),
            Item("sessions", 1,
                 Some(<<[exited |-> 1, errored |-> 0, abnormal |-> 0, crashed |-> 2]>>)),
            Item("metric_buckets", 1, Some(<<"transactions", "unsupported", "sessions">>))}

RECURSIVE SeqsUpTo(_, _)
SeqsUpTo(S, n) ==
    IF n = 0 THEN {<<>>}
    ELSE LET shorter == SeqsUpTo(S, n - 1)
         IN  shorter \cup {Append(q, x) : q \in shorter, x \in S}

StoreEnvelopes == [event_id : {None, Some(1)}, items : SeqsUpTo(StoreItems, MaxItems)]

StoreConfigs == [attachment_chunk_size : 1..MaxChunk]

InitStore ==
    /\ redis = <<>>
    /\ max_limit = None
    /\ now = StartTime
    /\ last = NoCall
    /\ InitStoreVars
    /\ strict = <<>>
    /\ InitProjectVars

\* handle_message: handle_store_envelope runs and its result is sent back.
HandleStoreEnvelope(envelope, store_config, fail_at) ==
    LET run == handle_store_envelope(envelope, store_config, uuids, fail_at)
    IN  /\ store_call.op = "none"
        /\ run.uuid <= MaxUuids
        /\ store_call' = [op |-> "handle_store_envelope", envelope |-> envelope,
                          config |-> store_config, out |-> run.out, result |-> run.err,
                          failed |-> run.failed, warned |-> run.warned]
        /\ uuids' = run.uuid
        /\ UNCHANGED <<limiterVars, projectVars>>

\* The sender of the message has taken the result.
StoreReturned ==
    /\ store_call.op # "none"
    /\ store_call' = [op |-> "none"]
    /\ UNCHANGED <<limiterVars, projectVars, uuids>>

\* A Store message arrives at the service.
HandleMessage ==
    /\ store_call.op = "none"
    /\ \E envelope \in StoreEnvelopes, store_config \in StoreConfigs, fail_at \in 0..MaxFail :
          HandleStoreEnvelope(envelope, store_config, fail_at)

NextStore == HandleMessage \/ StoreReturned

SpecStore == InitStore /\ [][NextStore]_vars

(***************************************************************************)
(* KafkaMessage::key on its own.  A UUID is a number, 0 the nil UUID; the  *)
(* k-th UUID of Uuid::new_v4 carries the version 4 in its third hex digit  *)
(* and k below it, so that no two generated UUIDs are equal and none is    *)
(* nil.                                                                    *)
(***************************************************************************)
UuidNil == 0

new_v4(k) == 4 * 4096 + k

\* Uuid::as_bytes: the 16 bytes of the UUID, most significant first.
as_bytes(uuid) ==
    [i \in 1..16 |-> IF i = 16 THEN uuid % 256
                     ELSE IF i = 15 THEN (uuid \div 256) % 256
                     ELSE 0]

EventIdVariants == {"event", "attachment", "attachment_chunk", "user_report"}
ReplayIdVariants == {"replay_event", "replay_recording", "replay_recording_chunk"}
NoIdVariants == {"session", "metric", "profile"}

\* KafkaMessage::key with the not-chunked recording keyed by its replay_id.
key_by_replay_id(message, generated) ==
    LET uuid == IF message.variant \in EventIdVariants THEN message.event_id
                ELSE IF message.variant \in NoIdVariants THEN UuidNil
                ELSE message.replay_id
    IN  IF uuid = UuidNil
        THEN [key |-> as_bytes(new_v4(generated + 1)), generated |-> generated + 1]
        ELSE [key |-> as_bytes(uuid), generated |-> generated]

\* KafkaMessage::key: the key and the number of UUIDs generated after it.
key(message, generated) ==
    LET uuid == IF message.variant \in EventIdVariants THEN message.event_id
                ELSE IF message.variant \in NoIdVariants THEN UuidNil
                ELSE IF message.variant = "replay_recording_not_chunked" THEN UuidNil
                ELSE message.replay_id
    IN  IF uuid = UuidNil
        THEN [key |-> as_bytes(new_v4(generated + 1)), generated |-> generated + 1]
        ELSE [key |-> as_bytes(uuid), generated |-> generated]

MessageIds == 0..MaxUuids

\* The messages whose key is asked for: every variant with every id.
KeyMessages ==
    [variant : EventIdVariants, event_id : MessageIds]
    \cup [variant : ReplayIdVariants \cup {"replay_recording_not_chunked"},
          replay_id : MessageIds]
    \cup [variant : NoIdVariants]

InitMessageKey ==
    /\ redis = <<>>
    /\ max_limit = None
    /\ now = StartTime
    /\ last = NoCall
    /\ InitStoreVars
    /\ strict = <<>>
    /\ InitProjectVars

\* The producer asks for the key of a message; the call before it is kept.
MessageKey(message) ==
    LET r == key(message, uuids)
    IN  /\ r.generated <= MaxUuids
        /\ store_call' = [op |-> "key", message |-> message, key |-> r.key,
                          generated |-> r.generated # uuids,
                          prev |-> IF store_call.op = "key"
                                   THEN Some([message |-> store_call.message,
                                              key |-> store_call.key,
                                              generated |-> store_call.generated])
                                   ELSE None]
        /\ uuids' = r.generated
        /\ UNCHANGED <<limiterVars, projectVars>>

NextMessageKey == \E message \in KeyMessages : MessageKey(message)

SpecMessageKey == InitMessageKey /\ [][NextMessageKey]_vars

(***************************************************************************)
(* produce_sessions_from_aggregate on its own, for aggregates of up to     *)
(* MAX_EXPLODED_SESSIONS + 1 entries: an entry a, then copies of an entry  *)
(* b, each status count being 0 or up to MaxStatusCount.                   *)
(***************************************************************************)
AggregateEntries ==
    [exited : {0, MaxStatusCount}, errored : {0, 1}, abnormal : {0, 1}, crashed : {0, 1}]

AggregateLengths ==
    {0, 1, 2, MAX_EXPLODED_SESSIONS - 1, MAX_EXPLODED_SESSIONS, MAX_EXPLODED_SESSIONS + 1}

Aggregates(n, a, b) == [i \in 1..n |-> IF i = 1 THEN a ELSE b]

InitSessions ==
    /\ redis = <<>>
    /\ max_limit = None
    /\ now = StartTime
    /\ last = NoCall
    /\ InitStoreVars
    /\ strict = <<>>
    /\ InitProjectVars

\* produce_sessions_from_aggregate(org_id, project_id, retention, client, aggregates)
ProduceSessionsFromAggregate(aggregates, fail_at) ==
    LET run == produce_sessions_from_aggregate(NewRun(uuids, fail_at), aggregates)
    IN  /\ store_call' = [op |-> "produce_sessions_from_aggregate",
                          aggregates |-> aggregates, out |-> run.out, result |-> run.err,
                          failed |-> run.failed, warned |-> run.warned]
        /\ UNCHANGED <<limiterVars, projectVars, uuids>>

\* A sessions item with aggregates reaches produce_sessions.
ProduceSessions ==
    /\ store_call.op = "none"
    /\ \E n \in AggregateLengths, a, b \in AggregateEntries, fail_at \in 0..MaxFail :
          ProduceSessionsFromAggregate(Aggregates(n, a, b), fail_at)

NextSessions == ProduceSessions \/ StoreReturned

SpecSessions == InitSessions /\ [][NextSessions]_vars

(***************************************************************************)
(* RedisQuota::key on its own: the key of every trackable quota, scoping   *)
(* and timestamp of the sets below, which hold the inputs of               *)
(* test_get_redis_key_scoped and test_get_redis_key_unscoped. Timestamps   *)
(* are not smaller than the windows.                                       *)
(***************************************************************************)
KeyQuotas ==
    {Quota(Some(id), {}, scope, None, Some(0), Some(window), None) :
        id \in {"foo", "bar"}, scope \in {"Organization", "Project", "Key"},
        window \in {1, 2, 3, 10}}

KeyScopings ==
    [category : {"error"}, organization_id : {0, 1, 2, 3, 69420}, project_id : {42},
     project_key : {"a94ae32be2584e0bbd7a4cbb95971fee"}, key_id : {None, Some(4711)}]

KeyTimestamps == {10, 11, 12, 13, 234531, 123123123}

InitKey ==
    /\ redis = <<>>
    /\ max_limit = None
    /\ now = StartTime
    /\ last = NoCall
    /\ InitStoreVars
    /\ strict = <<>>
    /\ InitProjectVars

\* RedisQuota::new(quota, scoping, timestamp).unwrap().key()
KeyOf(quota, scoping, timestamp) ==
    /\ IsTrackable(quota)
    /\ last' = [op |-> "key", quota |-> quota, scoping |-> scoping,
                timestamp |-> timestamp, key |-> Key(quota, scoping, timestamp)]
    /\ UNCHANGED <<redis, max_limit, now, strict>>
    /\ UNCHANGED <<projectVars, storeVars>>

NextKey ==
    \E quota \in KeyQuotas, scoping \in KeyScopings, timestamp \in KeyTimestamps :
        KeyOf(quota, scoping, timestamp)

SpecKey == InitKey /\ [][NextKey]_vars

(***************************************************************************)
(* The project's state machine: one action per public method of Project,   *)
(* one for the passing of time.                                            *)
(***************************************************************************)
InitProject ==
    /\ redis = <<>>
    /\ max_limit = None
    /\ now = StartTime
    /\ last = NoCall
    /\ InitStoreVars
    /\ strict = <<>>
    /\ InitProjectVars

\* The record of the no_cache calls after a call that ran get_or_fetch_state
\* with result r.
LogAfter(no_cache, r) ==
    IF ~no_cache THEN honoured
    ELSE LET l == [honoured EXCEPT !.prev_at = clock, !.prev_honoured = r.no_cache,
                                   !.prev_sent = Len(r.sent)]
         IN  IF r.no_cache
             THEN [l EXCEPT !.hon = TRUE, !.hon_sent = Len(r.sent),
                            !.updated_since = FALSE]
             ELSE l

\* The record of the no_cache calls at instant t: calls a second old are
\* forgotten.
LogAt(t) ==
    LET l == IF honoured.hon /\ t - last_no_cache >= TicksPerSec
             THEN [honoured EXCEPT !.hon = FALSE, !.hon_sent = 0, !.updated_since = FALSE]
             ELSE honoured
    IN  IF l.prev_at >= 0 /\ t - l.prev_at >= TicksPerSec
        THEN [l EXCEPT !.prev_at = -1, !.prev_honoured = FALSE, !.prev_sent = 0]
        ELSE l

\* What every method that runs get_or_fetch_state does to the project, r being
\* the result of get_or_fetch_state and channel the channel after the method.
RequestedUpTo(bound, op, no_cache, arg, r, channel) ==
    /\ nfetch + Len(r.sent) <= bound
    /\ last_no_cache' = r.last_no_cache
    /\ state_channel' = channel
    /\ upstream' = IF r.sent = <<>> THEN upstream
                   ELSE [upstream EXCEPT ![r.sent[1]] = @ + 1]
    /\ nfetch' = nfetch + Len(r.sent)
    /\ honoured' = LogAfter(no_cache, r)
    /\ plast' = [op |-> op, no_cache |-> no_cache, effective |-> r.no_cache,
                 sent |-> r.sent, result |-> r.cached, arg |-> arg,
                 pre_expiry |-> expiry_state(state, clock),
                 pre_channel |-> ChannelKind(state_channel)]
    /\ UNCHANGED <<config, clock, state>>
    /\ UNCHANGED <<limiterVars, storeVars>>

Requested(op, no_cache, arg, r, channel) ==
    RequestedUpTo(MaxFetches, op, no_cache, arg, r, channel)

\* Project::prefetch(no_cache): get_cached_state with the result dropped.
Prefetch(no_cache) ==
    LET r == get_or_fetch_state(no_cache, state, state_channel, last_no_cache, clock)
    IN  /\ RequestedUpTo(MaxPrefetches, "prefetch", no_cache, None, r, r.channel)
        /\ UNCHANGED <<pending_validations, pending_sampling, delivered, flushed, used,
                       rate_limits>>

\* Project::get_cached_state(no_cache).
GetCachedState(no_cache) ==
    LET r == get_or_fetch_state(no_cache, state, state_channel, last_no_cache, clock)
    IN  /\ Requested("get_cached_state", no_cache, None, r, r.channel)
        /\ UNCHANGED <<pending_validations, pending_sampling, delivered, flushed, used,
                       rate_limits>>

\* get_state's channel, attaching the sender to every running fetch.
AttachAlways(r, sender) ==
    IF IsSome(r.channel)
    THEN Some([r.channel[1] EXCEPT !.senders = Append(@, sender)])
    ELSE r.channel

\* get_state's channel: the sender is attached when get_or_fetch_state
\* returned Scheduled.
Attach(r, sender) ==
    IF IsSome(r.cached)
    THEN r.channel
    ELSE Some([r.channel[1] EXCEPT !.senders = Append(@, sender)])

\* Project::get_state(sender, no_cache).
GetState(no_cache) ==
    LET sender == used.senders + 1
        r == get_or_fetch_state(no_cache, state, state_channel, last_no_cache, clock)
    IN  /\ sender <= MaxSenders
        /\ used' = [used EXCEPT !.senders = sender]
        /\ delivered' = IF IsSome(r.cached)
                        THEN [delivered EXCEPT ![sender] = Append(@, r.cached[1])]
                        ELSE delivered
        /\ Requested("get_state", no_cache, Some(sender), r, Attach(r, sender))
        /\ UNCHANGED <<pending_validations, pending_sampling, flushed, rate_limits>>

\* Project::enqueue_validation(envelope, context), the envelope's meta
\* carrying no_cache.
EnqueueValidation(no_cache) ==
    LET envelope == [id |-> used.envelopes + 1, no_cache |-> no_cache]
        r == get_or_fetch_state(no_cache, state, state_channel, last_no_cache, clock)
    IN  /\ envelope.id <= MaxEnvelopes
        /\ used' = [used EXCEPT !.envelopes = envelope.id]
        /\ Requested("enqueue_validation", no_cache, Some(envelope.id), r, r.channel)
        /\ IF IsSome(r.cached)
           THEN /\ flushed' = Append(flushed,
                                     flush_validation(envelope, r.cached[1], state, clock))
                /\ rate_limits' = check_envelope_limits(rate_limits, state, clock)
                /\ UNCHANGED pending_validations
           ELSE /\ pending_validations' = Append(pending_validations, envelope)
                /\ UNCHANGED <<flushed, rate_limits>>
        /\ UNCHANGED <<pending_sampling, delivered>>

\* Project::enqueue_sampling(message), the envelope of the message belonging
\* to a project of organization org.
EnqueueSampling(no_cache, org) ==
    LET message == [id |-> used.envelopes + 1, no_cache |-> no_cache,
                    organization_id |-> Some(org)]
        r == get_or_fetch_state(no_cache, state, state_channel, last_no_cache, clock)
    IN  /\ message.id <= MaxEnvelopes
        /\ used' = [used EXCEPT !.envelopes = message.id]
        /\ Requested("enqueue_sampling", no_cache, Some(message.id), r, r.channel)
        /\ IF IsSome(r.cached)
           THEN /\ flushed' = Append(flushed, flush_sampling(message, state, clock))
                /\ UNCHANGED pending_sampling
           ELSE /\ pending_sampling' = Append(pending_sampling, message)
                /\ UNCHANGED flushed
        /\ UNCHANGED <<pending_validations, delivered, rate_limits>>

\* Project::update_state(state, no_cache), called with the upstream's answer
\* to one RequestUpdate(no_cache).
UpdateState(kind, no_cache) ==
    LET rev == nfetch - upstream[TRUE] - upstream[FALSE] + 1
        new == Fetched(kind, rev, clock)
        returns == ReturnsEarly(state_channel, no_cache)
        senders == IF IsSome(state_channel) THEN state_channel[1].senders ELSE <<>>
        keep == KeepsOld(state, new, clock)
        use == IF keep THEN state[1] ELSE new
        held == IF keep THEN state ELSE Some(new)
    IN  /\ upstream[no_cache] > 0
        /\ upstream' = [upstream EXCEPT ![no_cache] = @ - 1]
        /\ plast' = [op |-> "update_state", no_cache |-> no_cache, effective |-> no_cache,
                     sent |-> <<>>, result |-> None, arg |-> Some(new),
                     pre_expiry |-> expiry_state(state, clock),
                     pre_channel |-> ChannelKind(state_channel)]
        /\ IF returns
           THEN /\ state_channel' = AfterEarlyReturn(state_channel)
                /\ UNCHANGED <<state, pending_validations, pending_sampling,
                               delivered, flushed, honoured, rate_limits>>
           ELSE /\ state' = held
                /\ rate_limits' = IF pending_validations = <<>> THEN rate_limits
                                  ELSE check_envelope_limits(rate_limits, held, clock)
                /\ state_channel' = None
                /\ flushed' = flushed \o FlushValidations(pending_validations, use, held, clock)
                                      \o FlushSamplings(pending_sampling, held, clock)
                /\ pending_validations' = <<>>
                /\ pending_sampling' = <<>>
                /\ delivered' = [s \in DOMAIN delivered |->
                                   IF \E i \in 1..Len(senders) : senders[i] = s
                                   THEN Append(delivered[s], use)
                                   ELSE delivered[s]]
                /\ honoured' = [honoured EXCEPT !.updated_since = honoured.hon]
        /\ UNCHANGED <<config, clock, last_no_cache, nfetch, used>>
        /\ UNCHANGED <<limiterVars, storeVars>>

\* A tick of the clock, which runs until instant limit.
TickUntil(limit) ==
    /\ clock < limit
    /\ clock' = clock + 1
    /\ plast' = NoProjectCall
    /\ honoured' = LogAt(clock + 1)
    /\ UNCHANGED <<config, state, state_channel, pending_validations, pending_sampling,
                   last_no_cache, upstream, nfetch, delivered, flushed, used, rate_limits>>
    /\ UNCHANGED <<limiterVars, storeVars>>

Tick == TickUntil(MaxClock)

\* Project::merge_rate_limits(rate_limits) with the upstream's rate limit.
MergeRateLimits ==
    /\ rate_limits' = merge_rate_limits(rate_limits, <<TransactionLimit>>)
    /\ rate_limits' # rate_limits
    /\ plast' = [NoProjectCall EXCEPT !.op = "merge_rate_limits"]
    /\ honoured' = honoured
    /\ UNCHANGED <<config, clock, state, state_channel, pending_validations, pending_sampling,
                   last_no_cache, upstream, nfetch, delivered, flushed, used>>
    /\ UNCHANGED <<limiterVars, storeVars>>

NextProject ==
    \/ \E no_cache \in BOOLEAN : GetCachedState(no_cache)
    \/ \E no_cache \in BOOLEAN : GetState(no_cache)
    \/ \E no_cache \in BOOLEAN : EnqueueValidation(no_cache)
    \/ \E no_cache \in BOOLEAN, org \in 1..2 : EnqueueSampling(no_cache, org)
    \/ \E kind \in StateKinds, no_cache \in BOOLEAN : UpdateState(kind, no_cache)
    \/ Tick

SpecProject == InitProject /\ [][NextProject]_vars

\* The project whose cached rate limits the upstream's answers fill.
NextCached ==
    \/ \E no_cache \in BOOLEAN : GetCachedState(no_cache)
    \/ \E no_cache \in BOOLEAN : GetState(no_cache)
    \/ \E no_cache \in BOOLEAN : EnqueueValidation(no_cache)
    \/ \E no_cache \in BOOLEAN, org \in 1..2 : EnqueueSampling(no_cache, org)
    \/ \E kind \in StateKinds, no_cache \in BOOLEAN : UpdateState(kind, no_cache)
    \/ MergeRateLimits
    \/ Tick

SpecCached == InitProject /\ [][NextCached]_vars

\* The project asked to prefetch its state, again and again.
NextDebounce ==
    \/ \E no_cache \in BOOLEAN : Prefetch(no_cache)
    \/ \E kind \in StateKinds, no_cache \in BOOLEAN : UpdateState(kind, no_cache)
    \/ Tick

SpecDebounce == InitProject /\ [][NextDebounce]_vars

(***************************************************************************)
(* The methods of ProjectState on their own: a project holding one state   *)
(* fetched at instant 0, under every configuration of the cache durations, *)
(* asked for its expiry and checked against requests as time passes.       *)
(***************************************************************************)
Configs ==
    [project_cache_expiry : 0..MaxDuration, cache_miss_expiry : 0..MaxDuration,
     project_grace_period : 0..MaxDuration]

\* The project states tried: ProjectState::err(), and the states that are not
\* invalid, with or without project id, disabled or not, with no public key,
\* the project's key or another one.
States ==
    {Err(0, 0)} \cup
    {[rev |-> 0, project_id |-> id, organization_id |-> Some(1), disabled |-> d,
      invalid |-> FALSE, public_keys |-> k, last_fetch |-> 0] :
         id \in {None, Some(1), Some(2)}, d \in BOOLEAN,
         k \in {<<>>, <<ProjectKey>>, <<"b81ae32be2584e0bbd7a4cbb95971fe1">>}}

\* The request metas tried: with or without project id, with or without
\* origin, with the project's key or another one.
Metas ==
    [project_id : {None, Some(1)}, origin : {None, Some("http://localhost")},
     public_key : {ProjectKey, "b81ae32be2584e0bbd7a4cbb95971fe1"}]

InitState ==
    /\ redis = <<>>
    /\ max_limit = None
    /\ now = StartTime
    /\ last = NoCall
    /\ InitStoreVars
    /\ strict = <<>>
    /\ config \in Configs
    /\ clock = 0
    /\ state \in {Some(st) : st \in States}
    /\ state_channel = None
    /\ pending_validations = <<>>
    /\ pending_sampling = <<>>
    /\ last_no_cache = 0
    /\ upstream = [b \in BOOLEAN |-> 0]
    /\ nfetch = 0
    /\ delivered = [s \in 1..MaxSenders |-> <<>>]
    /\ flushed = <<>>
    /\ used = [senders |-> 0, envelopes |-> 0]
    /\ plast = NoProjectCall
    /\ honoured = NoLog
    /\ rate_limits = <<>>

\* ProjectState::check_expiry and Project::valid_state on the held state.
CheckExpiry ==
    /\ plast' = [NoProjectCall EXCEPT
                   !.op = "check_expiry",
                   !.result = [expiry |-> check_expiry(state[1], clock),
                               valid |-> valid_state(state, clock)]]
    /\ UNCHANGED <<config, clock, state, state_channel, pending_validations,
                   pending_sampling, last_no_cache, upstream, nfetch, delivered, flushed,
                   used, honoured, rate_limits>>
    /\ UNCHANGED <<limiterVars, storeVars>>

\* ProjectState::check_request(meta, config) and ProjectState::check_disabled
\* on the held state.
CheckRequest(meta) ==
    /\ plast' = [NoProjectCall EXCEPT
                   !.op = "check_request",
                   !.arg = Some(meta),
                   !.pre_expiry = check_expiry(state[1], clock),
                   !.result = [request |-> check_request(state[1], meta, clock),
                               disabled |-> check_disabled(state[1], clock)]]
    /\ UNCHANGED <<config, clock, state, state_channel, pending_validations,
                   pending_sampling, last_no_cache, upstream, nfetch, delivered, flushed,
                   used, honoured, rate_limits>>
    /\ UNCHANGED <<limiterVars, storeVars>>

NextState ==
    \/ CheckExpiry
    \/ \E meta \in Metas : CheckRequest(meta)
    \/ Tick

SpecState == InitState /\ [][NextState]_vars

(***************************************************************************)
(* The project of test_stale_cache: a long expiry, no grace period and a   *)
(* state fetched at instant 0, asked for its cached state as time passes.  *)
(***************************************************************************)
LongConfig ==
    [project_cache_expiry |-> LongExpiry * TicksPerSec,
     cache_miss_expiry |-> LongExpiry * TicksPerSec,
     project_grace_period |-> 0]

InitStale ==
    /\ redis = <<>>
    /\ max_limit = None
    /\ now = StartTime
    /\ last = NoCall
    /\ InitStoreVars
    /\ strict = <<>>
    /\ config = LongConfig
    /\ clock = 0
    /\ state = Some(Loaded(0, 0))
    /\ state_channel = None
    /\ pending_validations = <<>>
    /\ pending_sampling = <<>>
    /\ last_no_cache = 0
    /\ upstream = [b \in BOOLEAN |-> 0]
    /\ nfetch = 0
    /\ delivered = [s \in 1..MaxSenders |-> <<>>]
    /\ flushed = <<>>
    /\ used = [senders |-> 0, envelopes |-> 0]
    /\ plast = NoProjectCall
    /\ honoured = NoLog
    /\ rate_limits = <<>>

NextStale ==
    \/ GetCachedState(FALSE)
    \/ TickUntil(Late * TicksPerSec)

SpecStale == InitStale /\ [][NextStale]_vars

(***************************************************************************)
(* Project::rate_limit_metrics on its own: a project holding no state or a *)
(* state with or without project id and with the quotas of its config,     *)
(* given metrics while rate limits are merged and time passes.             *)
(***************************************************************************)
\* A project state with the quotas of its config.
WithQuotas(st, quotas) ==
    [f \in DOMAIN st \cup {"quotas"} |-> IF f = "quotas" THEN quotas ELSE st[f]]

\* The quota of test_rate_limit_incoming_metrics_no_quota, with limit l.
TransactionQuota(l) ==
    Quota(Some("foo"), {"transaction"}, "Organization", None, l, Some(3600), Some("foo"))

\* The quotas of the project configs: none, a reject-all quota on
\* transactions, a counted quota on transactions, reject-all quotas that do
\* not cover transactions, and two quotas.
MetricQuotas ==
    {<<>>, <<TransactionQuota(Some(0))>>, <<TransactionQuota(Some(1))>>,
     <<TransactionQuota(None)>>, <<ZeroOtherProject>>, <<ZeroErrors>>,
     <<ZeroErrors, TransactionQuota(Some(0))>>}

MetricStates ==
    {None} \cup {Some(WithQuotas(st, quotas)) :
                    st \in {Loaded(0, 0), Missing(0, 0), Err(0, 0),
                            [Loaded(0, 0) EXCEPT !.organization_id = None]},
                    quotas \in MetricQuotas}

\* Metrics or buckets, told apart by their namespace and a number.
MetricLists ==
    LET M == [namespace : {"transactions", "sessions"}, id : {1}]
                 \cup [namespace : {"transactions"}, id : {2}]
    IN  SeqsUpTo(M, MaxMetrics)

InitMetrics ==
    /\ redis = <<>>
    /\ max_limit = None
    /\ now = StartTime
    /\ last = NoCall
    /\ InitStoreVars
    /\ strict = <<>>
    /\ config = DefaultConfig
    /\ clock = 0
    /\ state \in MetricStates
    /\ state_channel = None
    /\ pending_validations = <<>>
    /\ pending_sampling = <<>>
    /\ last_no_cache = 0
    /\ upstream = [b \in BOOLEAN |-> 0]
    /\ nfetch = 0
    /\ delivered = [s \in 1..MaxSenders |-> <<>>]
    /\ flushed = <<>>
    /\ used = [senders |-> 0, envelopes |-> 0]
    /\ plast = NoProjectCall
    /\ honoured = NoLog
    /\ rate_limits = <<>>

\* Project::rate_limit_metrics(metrics), as insert_metrics and merge_buckets
\* call it.
RateLimitMetrics(metrics) ==
    /\ plast' = [NoProjectCall EXCEPT
                   !.op = "rate_limit_metrics",
                   !.arg = Some(metrics),
                   !.result = Some(rate_limit_metrics(state, rate_limits, metrics, clock))]
    /\ UNCHANGED <<config, clock, state, state_channel, pending_validations,
                   pending_sampling, last_no_cache, upstream, nfetch, delivered, flushed,
                   used, honoured, rate_limits>>
    /\ UNCHANGED <<limiterVars, storeVars>>

NextMetrics ==
    \/ \E metrics \in MetricLists : RateLimitMetrics(metrics)
    \/ MergeRateLimits
    \/ Tick

SpecMetrics == InitMetrics /\ [][NextMetrics]_vars

\* The project with an upstream that answers: every RequestUpdate(no_cache)
\* is eventually followed by update_state with the same no_cache.
SpecProjectLive ==
    /\ InitProject
    /\ [][NextProject]_vars
    /\ \A no_cache \in BOOLEAN : WF_vars(\E kind \in StateKinds : UpdateState(kind, no_cache))


(***************************************************************************)
(* Claims about the rate limiter, stated on the last call: last.pre is the *)
(* store before it, redis the store after it. A call "is limited" when it  *)
(* returns a rate limit.                                                   *)
(***************************************************************************)
Called == last.op = "is_rate_limited" /\ last.ok

Ran == Called /\ last.invoked

\* Counter minus refund before the last call, for tuple i of its batch.
ConsumedBefore(i) ==
    Get(last.pre, last.batch[i].key) - Get(last.pre, <<"r:">> \o last.batch[i].key)

\* The limit of the i-th tracked quota of the last call, -1 if it has none.
QuotaLimit(i) ==
    LET q == Tracked(last.quotas, ItemScoping)[i]
    IN  IF IsSome(q.limit) THEN q.limit[1] ELSE -1

\* C1: no partial increments. If the script rejects at least one quota of the
\* batch, no key of the store changes; the store changes only when the script
\* ran and accepted every quota of the batch.
C1_NoPartialIncrements ==
    Called =>
        /\ (\E i \in 1..Len(last.rejections) : last.rejections[i]) => redis = last.pre
        /\ redis # last.pre =>
              /\ last.invoked
              /\ \A i \in 1..Len(last.rejections) : ~last.rejections[i]

\* A batch of two quotas of which exactly one was rejected, the other one
\* having room for the quantity.
C1_Witness ==
    /\ Ran
    /\ Len(last.batch) = 2
    /\ last.quantity >= 1
    /\ \E i, j \in 1..2 :
          /\ last.rejections[i]
          /\ ~last.rejections[j]
          /\ Get(redis, last.batch[j].key) = Get(last.pre, last.batch[j].key)

\* C2: exhaust-then-block. A single-quota call with over_accept_once = false,
\* quantity q >= 1 and no refund is not limited iff the counter before the
\* call plus q is at most the limit L; and after any number n of such calls
\* with a constant q on an empty counter the counter is min(n, L \div q) * q:
\* the first L \div q calls were accepted, every later one was limited, and
\* the counter never exceeds L.
C2_ExhaustThenBlock ==
    /\ (/\ Ran
        /\ Len(last.quotas) = 1
        /\ ~last.over_accept_once
        /\ last.quantity >= 1
        /\ QuotaLimit(1) >= 0
        /\ (<<"r:">> \o last.batch[1].key) \notin DOMAIN last.pre)
       => /\ ~last.rejections[1] <=>
                 Get(last.pre, last.batch[1].key) + last.quantity <= QuotaLimit(1)
          /\ last.rejections[1] <=> last.rate_limits # <<>>
    /\ \A k \in DOMAIN strict :
          strict[k].plain =>
              /\ Get(redis, k) = Min(strict[k].calls, strict[k].lim \div strict[k].q)
                                    * strict[k].q
              /\ Get(redis, k) <= strict[k].lim

\* The counter stands at L \div q * q >= 1 after more than L \div q calls, the
\* last of which was limited.
C2_Witness ==
    /\ Ran
    /\ last.rejections = <<TRUE>>
    /\ \E k \in DOMAIN strict :
          /\ strict[k].plain
          /\ k = last.batch[1].key
          /\ strict[k].calls = (strict[k].lim \div strict[k].q) + 1
          /\ Get(redis, k) >= 1
          /\ Get(redis, k) = strict[k].lim

C4_QuantityZero ==
    (Called /\ last.quantity = 0) =>
        /\ redis = last.pre
        /\ last.invoked =>
              \A i \in 1..Len(last.batch) :
                  (QuotaLimit(i) >= 0 /\ ConsumedBefore(i) >= QuotaLimit(i))
                      => last.rejections[i] /\ last.rate_limits # <<>>

\* A call of quantity 0 limited with consumption exactly at the limit.
C4_Witness ==
    /\ Ran
    /\ last.quantity = 0
    /\ Len(last.batch) = 1
    /\ QuotaLimit(1) >= 1
    /\ ConsumedBefore(1) = QuotaLimit(1)
    /\ last.rejections = <<TRUE>>

C6_ZeroQuotaShortCircuit ==
    (Called /\ \E i \in 1..Len(last.quotas) :
                  /\ last.quotas[i].limit = Some(0)
                  /\ QuotaMatches(last.quotas[i], ItemScoping))
    => /\ ~last.invoked
       /\ redis = last.pre
       /\ \A i \in 1..Len(last.quotas) :
             (last.quotas[i].limit = Some(0) /\ QuotaMatches(last.quotas[i], ItemScoping))
                 => \E j \in 1..Len(last.rate_limits) :
                       /\ last.rate_limits[j].reason_code = last.quotas[i].reason_code
                       /\ last.rate_limits[j].scope
                             = RateLimitScope(ItemScoping, last.quotas[i].scope)
       /\ \A j \in 1..Len(last.rate_limits) :
             \E i \in 1..Len(last.quotas) :
                 /\ last.quotas[i].limit = Some(0)
                 /\ last.rate_limits[j].reason_code = last.quotas[i].reason_code

(***************************************************************************)
(* Claims about the project cache entry, stated on the steps of its        *)
(* methods: plast' holds the call that makes the step, the unprimed        *)
(* variables the project before it, the primed ones the project after it.  *)
(***************************************************************************)
RequestOps == {"get_cached_state", "get_state", "enqueue_validation", "enqueue_sampling"}

\* The senders attached to the running fetch are still attached after the step.
SendersStay ==
    /\ IsSome(state_channel')
    /\ SubSeq(state_channel'[1].senders, 1, Len(state_channel[1].senders))
           = state_channel[1].senders

\* C7: update_state called with an invalid new state while the held state is
\* Updated or Stale leaves the held state unchanged; an invalid new state
\* replaces the held state only when no state is held or the held one is
\* Expired.
C7_KeepInvalid ==
    [][(plast'.op = "update_state" /\ plast'.arg[1].invalid)
          => /\ expiry_state(state, clock) \in {"Updated", "Stale"} => state' = state
             /\ state' # state => expiry_state(state, clock) = "Expired"]_vars

\* An invalid answer completed the fetch while a stale state was held, and
\* the stale state is still held.
C7_Witness ==
    /\ plast.op = "update_state"
    /\ plast.arg[1].invalid
    /\ plast.pre_expiry = "Stale"
    /\ plast.pre_channel # "none"
    /\ IsNone(state_channel)
    /\ IsSome(state)
    /\ state[1].rev # plast.arg[1].rev

\* C8: of any two requests with no_cache = true less than a second apart, the
\* second is downgraded to no_cache = false, and at most one RequestUpdate
\* is sent for the two.
C8_NoCacheThrottle ==
    [][(/\ plast'.op \in RequestOps
        /\ plast'.no_cache
        /\ honoured.prev_at >= 0
        /\ clock - honoured.prev_at < TicksPerSec)
          => /\ ~plast'.effective
             /\ honoured.prev_sent + Len(plast'.sent) <= 1]_vars

\* C8, amended: of any two requests with no_cache = true less than a second
\* apart, the first of which was honoured, the second is downgraded to
\* no_cache = false, and at most one RequestUpdate is sent for the two
\* unless update_state completed the fetch between them.
C8_ThrottleAfterHonoured ==
    [][(/\ plast'.op \in RequestOps
        /\ plast'.no_cache
        /\ honoured.hon
        /\ clock - last_no_cache < TicksPerSec)
          => /\ ~plast'.effective
             /\ ~honoured.updated_since => honoured.hon_sent + Len(plast'.sent) <= 1]_vars

\* A no_cache request was downgraded a tick after an honoured one that sent
\* the RequestUpdate of a fetch still running.
C8_Witness ==
    /\ plast.op \in RequestOps
    /\ plast.no_cache
    /\ ~plast.effective
    /\ honoured.hon
    /\ honoured.hon_sent = 1
    /\ ~honoured.updated_since
    /\ clock - last_no_cache = 1
    /\ plast.sent = <<>>

\* C9: whenever the held state is Stale, get_cached_state, for every value of
\* no_cache, returns the held state, and after the call a refresh is in
\* flight: a RequestUpdate is sent unless a fetch is already running.
C9_StaleServing ==
    [][(plast'.op = "get_cached_state" /\ expiry_state(state, clock) = "Stale")
          => /\ plast'.result = state
             /\ IsSome(state_channel')
             /\ IsNone(state_channel) => Len(plast'.sent) = 1]_vars

\* C9, amended: whenever the held state is Stale, get_cached_state with
\* no_cache = false, or with a no_cache = true that the throttle downgrades,
\* returns the held state, and after the call a refresh is in flight: a
\* RequestUpdate is sent unless a fetch is already running. An honoured
\* no_cache = true returns None.
C9_StaleServingCached ==
    [][(plast'.op = "get_cached_state" /\ expiry_state(state, clock) = "Stale")
          => IF plast'.effective
             THEN plast'.result = None
             ELSE /\ plast'.result = state
                  /\ IsSome(state_channel')
                  /\ plast'.sent = (IF IsNone(state_channel) THEN <<FALSE>> ELSE <<>>)]_vars

\* get_cached_state returned a stale state and sent the RequestUpdate of its
\* refresh.
C9_Witness ==
    /\ plast.op = "get_cached_state"
    /\ plast.pre_expiry = "Stale"
    /\ plast.pre_channel = "none"
    /\ plast.result = state
    /\ IsSome(state)
    /\ plast.sent = <<FALSE>>
    /\ IsSome(state_channel)

C11_SupersededUpdate ==
    [][/\ (/\ plast'.op = "update_state"
           /\ ~plast'.no_cache
           /\ IsSome(state_channel)
           /\ state_channel[1].no_cache)
             => UNCHANGED <<state, state_channel, pending_validations, pending_sampling,
                            delivered, flushed>>
       /\ (IsSome(state_channel) /\ state_channel[1].no_cache /\ IsNone(state_channel'))
             => plast'.op = "update_state" /\ plast'.no_cache]_vars

\* A superseded answer left a no_cache fetch running with a sender attached
\* and an envelope queued.
C11_Witness ==
    /\ plast.op = "update_state"
    /\ ~plast.no_cache
    /\ plast.pre_channel = "no_cache"
    /\ IsSome(state_channel)
    /\ state_channel[1].no_cache
    /\ state_channel[1].senders # <<>>
    /\ pending_validations # <<>> \/ pending_sampling # <<>>
    /\ delivered[1] = <<>>

\* C12: after every update_state that consumes the channel (a channel exists
\* and the answer is not superseded) both pending queues are empty and there
\* is no channel; and if the new state is not invalid, or no Updated or Stale
\* state is held, the held state is the new state.
C12_UpdateDrains ==
    [][(/\ plast'.op = "update_state"
        /\ IsSome(state_channel)
        /\ ~(state_channel[1].no_cache /\ ~plast'.no_cache))
          => /\ pending_validations' = <<>>
             /\ pending_sampling' = <<>>
             /\ state_channel' = None
             /\ (\/ ~plast'.arg[1].invalid
                 \/ expiry_state(state, clock) = "Expired") => state' = plast'.arg]_vars

\* A valid answer replaced a stale state, flushed a queued envelope and
\* closed the channel.
C12_Witness ==
    /\ plast.op = "update_state"
    /\ plast.pre_channel # "none"
    /\ plast.pre_expiry = "Stale"
    /\ ~plast.arg[1].invalid
    /\ state = plast.arg
    /\ state_channel = None
    /\ flushed # <<>>
    /\ flushed[Len(flushed)].project_state = plast.arg
    /\ pending_validations = <<>>

\* Sender s is attached to the running fetch.
Attached(s) ==
    /\ IsSome(state_channel)
    /\ \E i \in 1..Len(state_channel[1].senders) : state_channel[1].senders[i] = s

\* Sender s is attached to the running fetch exactly once.
AttachedOnce(s) ==
    /\ IsSome(state_channel)
    /\ Cardinality({i \in 1..Len(state_channel[1].senders) :
                       state_channel[1].senders[i] = s}) = 1

\* C13: every sender passed to get_state receives a project state exactly
\* once: at any time it either has received one state and is not attached, or
\* has received none and is attached to the running fetch; and, the upstream
\* answering every RequestUpdate, an attached sender eventually receives its
\* state. A sender not yet passed has received nothing.
C13_ExactlyOnce ==
    /\ [](\A s \in 1..MaxSenders :
             IF s <= used.senders
             THEN \/ Len(delivered[s]) = 1 /\ ~Attached(s)
                  \/ Len(delivered[s]) = 0 /\ AttachedOnce(s)
             ELSE Len(delivered[s]) = 0 /\ ~Attached(s))
    /\ \A s \in 1..MaxSenders : Attached(s) ~> (Len(delivered[s]) = 1)

\* The state that an answer brought was sent to the sender attached to the
\* fetch, and to it once.
C13_Witness ==
    /\ plast.op = "update_state"
    /\ plast.pre_channel # "none"
    /\ IsNone(state_channel)
    /\ used.senders >= 1
    /\ delivered[1] = <<plast.arg[1]>>

\* The number of entries of sequence q that are about envelope e.
Count(q, e, Id(_)) == Cardinality({i \in 1..Len(q) : Id(q[i]) = e})

EnvelopeOf(entry) == entry.envelope

IdOf(envelope) == envelope.id

Queued(e) == Count(pending_validations, e, IdOf) + Count(pending_sampling, e, IdOf)

\* C14: an envelope passed to enqueue_validation or enqueue_sampling is at any
\* time either flushed once or in one pending queue once, never both and
\* never neither; and, the upstream answering every RequestUpdate, every
\* queued envelope is eventually flushed.
C14_QueuedFlushed ==
    /\ [](\A e \in 1..MaxEnvelopes :
             Count(flushed, e, EnvelopeOf) + Queued(e)
                 = (IF e <= used.envelopes THEN 1 ELSE 0))
    /\ \A e \in 1..MaxEnvelopes :
          (Queued(e) = 1) ~> (Count(flushed, e, EnvelopeOf) = 1 /\ Queued(e) = 0)

\* A message queued by enqueue_sampling was flushed by the answer of the
\* upstream, with the state the answer brought.
C14_Witness ==
    /\ plast.op = "update_state"
    /\ plast.pre_channel # "none"
    /\ pending_sampling = <<>>
    /\ Len(flushed) = 1
    /\ flushed[1].via = "sampling"
    /\ flushed[1].sampling_project_state = plast.arg

(***************************************************************************)
(* Claims about the methods of ProjectState, stated on the last call.      *)
(***************************************************************************)
\* The age of the held state, its expiry and the grace period.
Age == clock - state[1].last_fetch

ExpiryOf ==
    IF IsNone(state[1].project_id) THEN config.cache_miss_expiry
    ELSE config.project_cache_expiry

\* C15: check_expiry classifies a state of age a as Updated iff a < expiry,
\* Stale iff expiry <= a < expiry + grace and Expired iff a >= expiry + grace,
\* expiry being the cache-miss expiry for a state without project id and the
\* project-cache expiry otherwise; with expiry = 0 and grace = 0 every state
\* is Expired at once and valid_state returns None although the state is
\* stored.
C15_ExpiryClassification ==
    plast.op = "check_expiry"
    => LET g == config.project_grace_period
       IN  /\ plast.result.expiry = "Updated" <=> Age < ExpiryOf
           /\ plast.result.expiry = "Stale" <=> (ExpiryOf <= Age /\ Age < ExpiryOf + g)
           /\ plast.result.expiry = "Expired" <=> Age >= ExpiryOf + g
           /\ (ExpiryOf = 0 /\ g = 0)
                 => /\ plast.result.expiry = "Expired"
                    /\ plast.result.valid = None
                    /\ IsSome(state)

\* With expiry and grace 0 a loaded state is expired at the instant it was
\* fetched.
C15_Witness ==
    /\ plast.op = "check_expiry"
    /\ IsSome(state[1].project_id)
    /\ config.project_cache_expiry = 0
    /\ config.project_grace_period = 0
    /\ Age = 0
    /\ plast.result.valid = None

\* C16: with an expiry of 100 s and no grace period, a state fetched at
\* instant 0 is served as it is, without a refresh, at 50 s, and at 101 s it
\* is still served, as a stale state, while a refresh is scheduled.
C16_StaleServeScenario ==
    (plast.op = "get_cached_state" /\ ~plast.no_cache)
    => /\ clock = Early * TicksPerSec
            => /\ plast.result = state
               /\ plast.pre_expiry = "Updated"
               /\ plast.sent = <<>>
               /\ IsNone(state_channel)
       /\ clock = Late * TicksPerSec
            => /\ plast.result = state
               /\ plast.pre_expiry = "Stale"
               /\ IsSome(state_channel)

\* C16, amended: with an expiry of 100 s and no grace period, a state fetched
\* at instant 0 is served as it is, without a refresh, at 50 s; at 101 s it is
\* Expired, no age being Stale without a grace period: get_cached_state
\* returns None and a refresh is scheduled.
C16_ExpiredWithoutGrace ==
    (plast.op = "get_cached_state" /\ ~plast.no_cache)
    => /\ clock = Early * TicksPerSec
            => /\ plast.result = state
               /\ plast.pre_expiry = "Updated"
               /\ plast.sent = <<>>
               /\ IsNone(state_channel)
       /\ clock = Late * TicksPerSec
            => /\ plast.result = None
               /\ plast.pre_expiry = "Expired"
               /\ IsSome(state_channel)
               /\ plast.pre_channel = "none" => plast.sent = <<FALSE>>
       /\ plast.pre_expiry # "Stale"

\* At 101 s get_cached_state returned None and sent the RequestUpdate of the
\* refresh.
C16_Witness ==
    /\ plast.op = "get_cached_state"
    /\ clock = Late * TicksPerSec
    /\ config = LongConfig
    /\ plast.pre_channel = "none"
    /\ plast.result = None
    /\ plast.sent = <<FALSE>>

\* C17: get_cached_state called with no_cache = true always returns None and
\* always leaves a refresh running, whatever the cached state and whatever
\* calls preceded it.
C17_NoCacheReturnsNone ==
    (plast.op = "get_cached_state" /\ plast.no_cache)
    => /\ plast.result = None
       /\ IsSome(state_channel)

\* The outcome of the single checks of check_request on the held state and
\* the meta of the last call.
IdOk ==
    ~(/\ IsSome(state[1].project_id)
      /\ IsSome(plast.arg[1].project_id)
      /\ state[1].project_id # plast.arg[1].project_id)

OriginOk == IsNone(plast.arg[1].origin)

KeyOk ==
    IF state[1].public_keys # <<>>
    THEN state[1].public_keys[1] = plast.arg[1].public_key
    ELSE IsNone(state[1].project_id)

\* C18: check_request performs the project-id, origin, key, disabled and
\* invalid checks in that order and returns the reason of the first failing
\* one; a state that is not expired, disabled and invalid and passes the
\* first three checks gets the reason of the disabled check.
C18_CheckOrder ==
    plast.op = "check_request"
    => plast.result.request =
          (IF ~IdOk THEN "ProjectId"
           ELSE IF ~OriginOk THEN "Cors"
           ELSE IF ~KeyOk THEN "ProjectId"
           ELSE IF plast.pre_expiry = "Expired" THEN "Ok"
           ELSE IF state[1].disabled THEN "ProjectId"
           ELSE IF state[1].invalid THEN "ProjectState"
           ELSE "Ok")

\* C18, amended: check_request performs the project-id, origin, key, invalid
\* and disabled checks in that order and returns the reason of the first
\* failing one; a state that is not expired, disabled and invalid and passes
\* the first three checks gets the reason of the invalid check.
C18_CheckOrderInvalidFirst ==
    plast.op = "check_request"
    => plast.result.request =
          (IF ~IdOk THEN "ProjectId"
           ELSE IF ~OriginOk THEN "Cors"
           ELSE IF ~KeyOk THEN "ProjectId"
           ELSE IF plast.pre_expiry = "Expired" THEN "Ok"
           ELSE IF state[1].invalid THEN "ProjectState"
           ELSE IF state[1].disabled THEN "ProjectId"
           ELSE "Ok")

\* ProjectState::err(), not expired, was checked against a request that
\* passes the id, origin and key checks: the reason is that of the invalid
\* check.
C18_Witness ==
    /\ plast.op = "check_request"
    /\ state[1].invalid
    /\ state[1].disabled
    /\ plast.pre_expiry # "Expired"
    /\ IdOk /\ OriginOk /\ KeyOk
    /\ plast.result.request = "ProjectState"

\* C19: for an expired state check_disabled returns Ok even if the state is
\* disabled or invalid, so that check_request fails only on the project id,
\* the origin or the key; for a state that is not expired the invalid check
\* yields ProjectState and the disabled check ProjectId.
C19_FailOpen ==
    plast.op = "check_request"
    => IF plast.pre_expiry = "Expired"
       THEN /\ plast.result.disabled = "Ok"
            /\ plast.result.request # "Ok" => ~(IdOk /\ OriginOk /\ KeyOk)
            /\ plast.result.request \in {"Ok", "ProjectId", "Cors"}
       ELSE plast.result.disabled =
               (IF state[1].invalid THEN "ProjectState"
                ELSE IF state[1].disabled THEN "ProjectId"
                ELSE "Ok")

\* An expired ProjectState::err() passed check_request.
C19_Witness ==
    /\ plast.op = "check_request"
    /\ plast.pre_expiry = "Expired"
    /\ state[1].invalid
    /\ state[1].disabled
    /\ plast.result.disabled = "Ok"
    /\ plast.result.request = "Ok"

(***************************************************************************)
(* Claims about RedisQuota::key, stated on the last key computed.          *)
(***************************************************************************)
\* C20: for a trackable quota with id Q and window W, a scoping with
\* organization O and timestamp t the counter key is "quota:Q{O}S:N" with
\* N = floor((t - (O mod W)) / W), S being the project id for Project scope,
\* the key id for Key scope and empty for Organization scope; the inputs of
\* the two tests give quota:foo{69420}42:61561561 and quota:foo{69420}:23453.
\* The key is a function of these inputs.
C20_KeyDeterminism ==
    last.op = "key"
    => LET Q == last.quota.id[1]
           W == last.quota.window[1]
           O == last.scoping.organization_id
           t == last.timestamp
           N == (t - (O % W)) \div W
           S == CASE last.quota.scope = "Project" -> Dec(last.scoping.project_id)
                  [] last.quota.scope = "Key" ->
                        IF IsSome(last.scoping.key_id) THEN Dec(last.scoping.key_id[1])
                        ELSE <<>>
                  [] OTHER -> <<>>
       IN  /\ last.key = <<"quota:", Q, "{">> \o Dec(O) \o <<"}">> \o S \o <<":">> \o Dec(N)
           /\ (Q = "foo" /\ O = 69420 /\ last.quota.scope = "Project" /\ W = 2
                  /\ t = 123123123)
                 => last.key = <<"quota:", "foo", "{", "6", "9", "4", "2", "0", "}",
                                 "4", "2", ":", "6", "1", "5", "6", "1", "5", "6", "1">>
           /\ (Q = "foo" /\ O = 69420 /\ last.quota.scope = "Organization" /\ W = 10
                  /\ t = 234531)
                 => last.key = <<"quota:", "foo", "{", "6", "9", "4", "2", "0", "}",
                                 ":", "2", "3", "4", "5", "3">>

\* The key of test_get_redis_key_scoped has been computed.
C20_Witness ==
    /\ last.op = "key"
    /\ last.quota.id = Some("foo")
    /\ last.quota.scope = "Project"
    /\ last.quota.window = Some(2)
    /\ last.scoping.organization_id = 69420
    /\ last.timestamp = 123123123
    /\ last.key = <<"quota:", "foo", "{", "6", "9", "4", "2", "0", "}",
                    "4", "2", ":", "6", "1", "5", "6", "1", "5", "6", "1">>

(***************************************************************************)
(* Claims about the keys and the write set of the script invocations.      *)
(***************************************************************************)
\* The hash tag of a key, as the counter store's cluster reads it: the tokens
\* between the first "{" and the first "}" after it; none without braces.
HashTag(k) ==
    LET opens == {i \in 1..Len(k) : k[i] = "{"}
        open == CHOOSE i \in opens : \A j \in opens : i <= j
        closes == {i \in 1..Len(k) : k[i] = "}" /\ i > open}
        close == CHOOSE i \in closes : \A j \in closes : i <= j
    IN  IF opens = {} \/ closes = {} THEN <<>> ELSE SubSeq(k, open + 1, close - 1)

\* C21: hash-tag invariant. In every script invocation made by
\* is_rate_limited every counter key and every refund key carries the same
\* {org} hash tag: the organization id of the item scoping of the call.
C21_HashTag ==
    Ran =>
        \A i \in 1..Len(last.batch) :
            /\ HashTag(last.batch[i].key) = Dec(ItemScoping.organization_id)
            /\ HashTag(last.batch[i].refund_key) = Dec(ItemScoping.organization_id)

\* One invocation with the keys of an organization quota and of a project
\* quota, four keys in all.
C21_Witness ==
    /\ Ran
    /\ Len(last.batch) = 2
    /\ {Tracked(last.quotas, ItemScoping)[i].scope : i \in 1..2} = {"Organization", "Project"}
    /\ Cardinality({last.batch[i].key : i \in 1..2}
                       \cup {last.batch[i].refund_key : i \in 1..2}) = 4

\* C22: write set of the counter script. A counter key's TTL is set by the
\* increment that creates the key, to that invocation's expiry argument, and
\* no later increment of the key changes it; refund keys are read only: a
\* call of is_rate_limited neither creates nor modifies one.
C22_WriteSet ==
    Called =>
        /\ \A k \in DOMAIN last.pre :
              /\ k \in DOMAIN redis
              /\ redis[k].exp = last.pre[k].exp
        /\ \A k \in DOMAIN redis \ DOMAIN last.pre :
              \E i \in 1..Len(last.batch) :
                  /\ last.batch[i].key = k
                  /\ redis[k].exp = last.batch[i].expiry
                  /\ redis[k].val = last.batch[i].quantity
        /\ \A k \in DOMAIN redis \cup DOMAIN last.pre :
              Head(k) = "r:" => k \in DOMAIN last.pre /\ redis[k] = last.pre[k]
        /\ \A i \in 1..Len(last.batch) :
              /\ Head(last.batch[i].refund_key) = "r:"
              /\ Head(last.batch[i].key) # "r:"

\* An accepted call incremented a counter that an earlier call had created
\* with another expiry, its refund key being set.
C22_Witness ==
    /\ Ran
    /\ \E i \in 1..Len(last.batch) :
          /\ last.batch[i].key \in DOMAIN last.pre
          /\ last.pre[last.batch[i].key].exp # last.batch[i].expiry
          /\ redis[last.batch[i].key].val > last.pre[last.batch[i].key].val
          /\ last.batch[i].refund_key \in DOMAIN last.pre

(***************************************************************************)
(* Claims about quotas without a limit.                                    *)
(***************************************************************************)
\* The tuples of the last call whose quota has no limit.
UnlimitedAt == {i \in 1..Len(last.batch) : IsNone(Tracked(last.quotas, ItemScoping)[i].limit)}

\* Every limited quota of the last call has room for the quantity.
AllHaveRoom ==
    \A j \in 1..Len(last.batch) :
        QuotaLimit(j) >= 0 =>
            /\ ConsumedBefore(j) + last.quantity <= QuotaLimit(j)
            /\ last.quantity = 0 => ConsumedBefore(j) < QuotaLimit(j)

\* The unlimited quota is passed as -1, is not rejected and gives no rate limit.
UnlimitedAccepted(i) ==
    /\ last.batch[i].limit = -1
    /\ ~last.rejections[i]
    /\ \A j \in 1..Len(last.rate_limits) :
          last.rate_limits[j].reason_code # Tracked(last.quotas, ItemScoping)[i].reason_code

\* The counter of tuple i stands at its value before the call plus the quantity.
Incremented(i) ==
    Get(redis, last.batch[i].key) = Get(last.pre, last.batch[i].key) + last.quantity

\* C30 as stated: a trackable quota with limit None is passed to the script
\* as limit -1, is never reported as rejected, and on every call is accepted
\* and has its counter incremented by the quantity; checked together with a
\* limited quota it causes no rate limit while the limited quota has room.
C30_Unlimited ==
    Ran =>
        /\ \A i \in UnlimitedAt : UnlimitedAccepted(i) /\ Incremented(i)
        /\ (UnlimitedAt # {} /\ AllHaveRoom) =>
              \A j \in 1..Len(last.rate_limits) :
                  \A i \in 1..Len(last.batch) :
                      last.rate_limits[j].reason_code
                          # Tracked(last.quotas, ItemScoping)[i].reason_code

\* C30, amended: the counter of the unlimited quota is incremented by the
\* quantity on every call whose script rejects no quota of the batch, and is
\* left unchanged when another quota of the batch is rejected.
C30_UnlimitedUnlessRejected ==
    Ran =>
        /\ \A i \in UnlimitedAt :
              /\ UnlimitedAccepted(i)
              /\ IF \E j \in 1..Len(last.batch) : last.rejections[j]
                 THEN Get(redis, last.batch[i].key) = Get(last.pre, last.batch[i].key)
                 ELSE Incremented(i)
        /\ (UnlimitedAt # {} /\ AllHaveRoom) =>
              /\ \A i \in 1..Len(last.batch) : ~last.rejections[i] /\ Incremented(i)
              /\ \A j \in 1..Len(last.rate_limits) :
                    \A i \in 1..Len(last.batch) :
                        last.rate_limits[j].reason_code
                            # Tracked(last.quotas, ItemScoping)[i].reason_code

\* An unlimited quota counted beyond every limit of the catalogue, checked
\* together with a limited quota that has room: both counters incremented.
C30_Witness ==
    /\ Ran
    /\ Len(last.batch) = 2
    /\ last.quantity >= 1
    /\ \E i, j \in 1..2 :
          /\ i \in UnlimitedAt
          /\ QuotaLimit(j) >= 1
          /\ Get(last.pre, last.batch[i].key) >= 1
          /\ Get(redis, last.batch[i].key) > MaxLimit
          /\ Incremented(i)
          /\ Incremented(j)
          /\ last.rate_limits = <<>>

(***************************************************************************)
(* Claims about the publisher, stated on the last call of                  *)
(* handle_store_envelope: store_call.envelope is its envelope,             *)
(* store_call.out the messages it sent in order, store_call.result the     *)
(* error it returned if any.                                               *)
(***************************************************************************)
Stored == store_call.op = "handle_store_envelope"

StoredOk == Stored /\ IsNone(store_call.result)

ChunkVariants == {"attachment_chunk", "replay_recording_chunk"}

\* The positions in the output of the chunk messages with the given id.
ChunkPositions(id) ==
    {p \in 1..Len(store_call.out) :
        /\ store_call.out[p].message.variant \in ChunkVariants
        /\ store_call.out[p].message.id = id}

\* The summaries sent, with the position of the message that carries each
\* and the place in that message:
\* the ChunkedAttachments of the event message or of the standalone
\* attachment messages, and the metas of the replay_recording messages.
Summaries ==
    LET out == store_call.out
    IN  {[at |-> p, k |-> 1, kind |-> "attachment", summary |-> out[p].message.attachment] :
            p \in {q \in 1..Len(out) : out[q].message.variant = "attachment"}}
        \cup {[at |-> p, k |-> 1, kind |-> "replay_recording",
               summary |-> out[p].message.replay_recording] :
                 p \in {q \in 1..Len(out) : out[q].message.variant = "replay_recording"}}
        \cup UNION {{[at |-> p, k |-> k, kind |-> "attachment",
                       summary |-> out[p].message.attachments[k]] :
                        k \in 1..Len(out[p].message.attachments)} :
                    p \in {q \in 1..Len(out) : out[q].message.variant = "event"}}

\* The payloads of the chunks with the given id joined in index order, from
\* index i on, behind the view joined so far; Broken when a chunk does not
\* continue the view or an index is missing or repeated.
Broken == [src |-> "", from |-> -1, to |-> -1]

RECURSIVE JoinChunks(_, _, _, _)
JoinChunks(id, i, n, joined) ==
    IF i = n THEN joined
    ELSE LET at == {p \in ChunkPositions(id) : store_call.out[p].message.chunk_index = i}
         IN  IF Cardinality(at) # 1 THEN Broken
             ELSE LET chunk == store_call.out[CHOOSE p \in at : TRUE].message.payload
                  IN  IF joined # <<>> /\ (joined[1].src # chunk.src \/ joined[1].to # chunk.from)
                      THEN Broken
                      ELSE JoinChunks(id, i + 1, n,
                               IF joined = <<>> THEN <<chunk>>
                               ELSE <<[joined[1] EXCEPT !.to = chunk.to]>>)

\* The items of the envelope that are chunked, in order: the attachments, or
\* the replay recordings that are not sent in one message.
ChunkedItems(kind) ==
    SelectSeq(store_call.envelope.items,
        LAMBDA item : /\ item.ty = kind
                      /\ kind = "replay_recording" => BytesLen(item.payload) >= 998000)

\* The summaries of a kind in the order they were collected or sent.
RECURSIVE Ordered(_)
Ordered(S) ==
    IF S = {} THEN <<>>
    ELSE LET first == CHOOSE s \in S : \A t \in S : s.at < t.at \/ (s.at = t.at /\ s.k <= t.k)
         IN  <<first.summary>> \o Ordered(S \ {first})

C24_ChunksPrecedeSummary ==
    Stored =>
        LET out == store_call.out
            chunks == {p \in 1..Len(out) : out[p].message.variant \in ChunkVariants}
        IN  /\ \A s \in Summaries :
                  /\ \A p \in ChunkPositions(s.summary.id) : p < s.at
                  /\ Cardinality(ChunkPositions(s.summary.id)) = s.summary.chunks
            /\ \A p, q \in chunks :
                  (p < q /\ out[p].message.id = out[q].message.id)
                      => out[p].message.chunk_index < out[q].message.chunk_index
            /\ (IsSome(store_call.failed) /\ store_call.failed[1].variant \in ChunkVariants)
                  => /\ store_call.result = Some("SendFailed")
                     /\ \A s \in Summaries : s.summary.id # store_call.failed[1].id

\* The second chunk of an attachment failed to be sent after its first chunk
\* and, before it, the chunk and the summary of a replay recording were sent.
C24_Witness ==
    /\ Stored
    /\ IsSome(store_call.failed)
    /\ store_call.failed[1].variant = "attachment_chunk"
    /\ store_call.failed[1].chunk_index = 1
    /\ ChunkPositions(store_call.failed[1].id) # {}
    /\ \E s \in Summaries :
          /\ s.kind = "replay_recording"
          /\ ChunkPositions(s.summary.id) # {}

\* The chunk messages of the last call.
ChunkMessages ==
    {store_call.out[p].message :
        p \in {q \in 1..Len(store_call.out) :
                  store_call.out[q].message.variant \in ChunkVariants}}

\* The length of the buffer a payload is a view of.
BufferLen(payload) == payload.src[2]

\* Every chunk has size min(max_chunk_size, remaining): max_chunk_size is
\* Config::attachment_chunk_size for attachments and 998,000 for recordings.
ChunkSizes ==
    \A c \in ChunkMessages :
        LET max_chunk_size == IF c.variant = "attachment_chunk"
                              THEN store_call.config.attachment_chunk_size
                              ELSE 998000
        IN  BytesLen(c.payload) = Min(max_chunk_size, BufferLen(c.payload) - c.payload.from)

ItemTypes == {store_call.envelope.items[i].ty : i \in 1..Len(store_call.envelope.items)}

\* The event item of the envelope is a transaction: the first of its items of
\* type event, transaction or security has type transaction.
EventItemIsTransaction ==
    \E i \in 1..Len(store_call.envelope.items) :
        /\ store_call.envelope.items[i].ty = "transaction"
        /\ \A j \in 1..(i - 1) :
              store_call.envelope.items[j].ty \notin {"event", "transaction", "security"}

\* The event message and the standalone attachment messages of the last call
\* all went to the topic chosen with the given types of slow items.
EventTopicWith(slow) ==
    \A p \in 1..Len(store_call.out) :
        store_call.out[p].message.variant \in {"event", "attachment"} =>
            store_call.out[p].topic =
                IF ItemTypes \cap slow # {} THEN "Attachments"
                ELSE IF EventItemIsTransaction THEN "Transactions"
                ELSE "Events"

\* C26 as stated: the event and standalone attachment messages go to the
\* attachments topic iff the envelope contains an attachment, a user report
\* or a replay recording, otherwise to the transactions topic iff the event
\* item is a transaction, otherwise to the events topic.
C26_TopicSelection ==
    Stored => EventTopicWith({"attachment", "user_report", "replay_recording"})

\* C26, amended: the slow items are the attachments and the user reports; a
\* replay recording does not change the topic.
C26_TopicSelectionSlow ==
    Stored => EventTopicWith({"attachment", "user_report"})

\* A transaction stored with a replay recording went to the transactions
\* topic.
C26_Witness ==
    /\ StoredOk
    /\ ItemTypes = {"transaction", "replay_recording"}
    /\ \E p \in 1..Len(store_call.out) :
          /\ store_call.out[p].message.variant = "event"
          /\ store_call.out[p].topic = "Transactions"

\* The variants of the messages that carry the event or replay id.
IdVariants ==
    {"event", "attachment", "attachment_chunk", "user_report", "replay_event",
     "replay_recording", "replay_recording_chunk", "replay_recording_not_chunked"}

\* The last call had an envelope without event id and its producer did not fail.
StoredWithoutId ==
    /\ Stored
    /\ IsNone(store_call.envelope.event_id)
    /\ IsNone(store_call.failed)

\* The places of the items of the given types in the envelope.
Places(types) ==
    {i \in 1..Len(store_call.envelope.items) : store_call.envelope.items[i].ty \in types}

\* The messages that the items before place i give rise to.
MessagesBefore(i) ==
    ItemLoop(NewRun(uuids, 0), store_call.config, None,
             SubSeq(store_call.envelope.items, 1, i - 1)).out

\* The call returned NoEventId having published the messages of the items
\* before the first item of the given types and nothing else.
FatalFrom(types) ==
    Places(types) # {} =>
        LET first == CHOOSE i \in Places(types) : \A j \in Places(types) : i <= j
        IN  /\ store_call.result = Some("NoEventId")
            /\ store_call.out = MessagesBefore(first)
            /\ \A p \in 1..Len(store_call.out) :
                  store_call.out[p].message.variant \notin IdVariants

StatusMessages(entry) ==
    (IF entry.exited > 0 THEN <<[status |-> "exited", quantity |-> entry.exited]>> ELSE <<>>)
    \o (IF entry.errored > 0 THEN <<[status |-> "errored", quantity |-> entry.errored]>>
        ELSE <<>>)
    \o (IF entry.abnormal > 0 THEN <<[status |-> "abnormal", quantity |-> entry.abnormal]>>
        ELSE <<>>)
    \o (IF entry.crashed > 0 THEN <<[status |-> "crashed", quantity |-> entry.crashed]>>
        ELSE <<>>)

RECURSIVE Exploded(_)
Exploded(aggregates) ==
    IF aggregates = <<>> THEN <<>>
    ELSE StatusMessages(Head(aggregates)) \o Exploded(Tail(aggregates))

\* C29: one session-aggregates item explodes into at most 100 published
\* SessionKafkaMessages, one per status count that is not zero in the order
\* exited, errored, abnormal, crashed, each with quantity equal to that count;
\* what lies beyond the bound is dropped with a warning and without an error.
C29_SessionAggregates ==
    (store_call.op = "produce_sessions_from_aggregate" /\ IsNone(store_call.failed)) =>
        LET all == Exploded(store_call.aggregates)
            kept == SubSeq(all, 1, Min(Len(all), MAX_EXPLODED_SESSIONS))
        IN  /\ Len(store_call.out) <= MAX_EXPLODED_SESSIONS
            /\ Len(store_call.out) = Len(kept)
            /\ \A p \in 1..Len(kept) :
                  /\ store_call.out[p].message.variant = "session"
                  /\ store_call.out[p].message.status = kept[p].status
                  /\ store_call.out[p].message.quantity = kept[p].quantity
            /\ IsNone(store_call.result)
            /\ store_call.warned <=> Len(all) > MAX_EXPLODED_SESSIONS

(***************************************************************************)
(* Claims about the partition key, stated on the last two calls of         *)
(* KafkaMessage::key.                                                      *)
(***************************************************************************)
\* The event or replay id a message is keyed by, nil if it has none.
KeyedBy(message) ==
    IF message.variant \in {"event", "attachment", "attachment_chunk", "user_report"}
    THEN message.event_id
    ELSE IF message.variant \in {"replay_event", "replay_recording", "replay_recording_chunk"}
    THEN message.replay_id
    ELSE 0

KeyCalls ==
    IF store_call.op # "key" THEN {}
    ELSE {[message |-> store_call.message, key |-> store_call.key,
           generated |-> store_call.generated]}
         \cup (IF IsSome(store_call.prev) THEN {store_call.prev[1]} ELSE {})

\* C27: every message keyed by the same event or replay id that is not nil
\* gets the same 16 bytes, those of the id, whatever its variant among event,
\* attachment, attachment chunk, user report, replay event, replay recording
\* and replay recording chunk; a message whose id is nil, and every session,
\* metric, profile and not-chunked recording, gets a key generated for this
\* call, different from the key of the call before and never all zero.
C27_PartitionKey ==
    /\ \A c \in KeyCalls :
          IF KeyedBy(c.message) # 0
          THEN ~c.generated /\ c.key[16] = KeyedBy(c.message)
               /\ \A i \in 1..15 : c.key[i] = 0
          ELSE c.generated /\ \E i \in 1..16 : c.key[i] # 0
    /\ \A c, d \in KeyCalls :
          (KeyedBy(c.message) # 0 /\ KeyedBy(c.message) = KeyedBy(d.message)) => c.key = d.key
    /\ (store_call.op = "key" /\ IsSome(store_call.prev) /\ store_call.generated) =>
          store_call.key # store_call.prev[1].key

\* A replay recording chunk follows an event with the same id, which is not
\* nil, after a key was generated for an earlier message.
C27_Witness ==
    /\ store_call.op = "key"
    /\ IsSome(store_call.prev)
    /\ store_call.message.variant = "replay_recording_chunk"
    /\ store_call.prev[1].message.variant = "event"
    /\ store_call.message.replay_id = 2
    /\ store_call.prev[1].message.event_id = 2
    /\ store_call.key = store_call.prev[1].key
    /\ uuids > 0

(***************************************************************************)
(* Claims about the quotas the loop of is_rate_limited skips.              *)
(***************************************************************************)
\* A quota the loop skips: it does not match the item, or it lacks id or
\* window and is not a reject-all quota.
SkippedQuota(q) ==
    \/ ~QuotaMatches(q, ItemScoping)
    \/ (IsNone(q.id) \/ IsNone(q.window)) /\ q.limit # Some(0)

\* The keys of the store, before or after the last call, whose prefix is id.
KeysOf(id) ==
    {k \in DOMAIN redis \cup DOMAIN last.pre :
        IF Head(k) = "r:" THEN k[3] = id ELSE k[2] = id}

\* C31: no applicable quota. A call whose quotas are all skipped (an empty
\* list included) returns no rate limit and does not contact the counter
\* store; in every call a skipped quota produces no rate limit and changes no
\* counter.
C31_NoApplicableQuota ==
    Called =>
        /\ (\A i \in 1..Len(last.quotas) : SkippedQuota(last.quotas[i])) =>
              /\ last.rate_limits = <<>>
              /\ ~last.invoked
              /\ last.batch = <<>>
              /\ redis = last.pre
        /\ \A i \in 1..Len(last.quotas) :
              SkippedQuota(last.quotas[i]) =>
                  /\ \A j \in 1..Len(last.rate_limits) :
                        last.rate_limits[j].reason_code # last.quotas[i].reason_code
                  /\ IsSome(last.quotas[i].id) => KeysOf(last.quotas[i].id[1]) = {}

\* A call with one quota that has an id and a window but is of another
\* category, made when the store already holds a counter.
C31_Witness ==
    /\ Called
    /\ Len(last.quotas) = 1
    /\ SkippedQuota(last.quotas[1])
    /\ IsTrackable(last.quotas[1])
    /\ \E k \in DOMAIN last.pre : Head(k) # "r:" /\ last.pre[k].val > 0

(***************************************************************************)
(* Claims about the cached rate limiting of metrics, stated on the last    *)
(* call of rate_limit_metrics.                                             *)
(***************************************************************************)
Limited == plast.op = "rate_limit_metrics"

HasProjectId == IsSome(state) /\ IsSome(state[1].project_id)

\* The transactions of the held project.
OwnTransactions ==
    [category |-> "transaction",
     organization_id |-> IF IsSome(state[1].organization_id)
                         THEN state[1].organization_id[1] ELSE 0,
     project_id |-> state[1].project_id[1], project_key |-> ProjectKey, key_id |-> None]

\* The state declares a quota with limit 0 that covers its transactions.
ZeroOnTransactions ==
    \E i \in 1..Len(state[1].quotas) :
        /\ state[1].quotas[i].limit = Some(0)
        /\ QuotaMatches(state[1].quotas[i], OwnTransactions)

\* A cached rate limit of the project covers its transactions and has not
\* expired.
CachedOnTransactions ==
    \E i \in 1..Len(rate_limits) :
        /\ "transaction" \in rate_limits[i].categories
        /\ rate_limits[i].scope = <<"Organization", Dec(OwnTransactions.organization_id)>>
        /\ rate_limits[i].retry_after > clock

\* The metrics of the last call that are not of the transaction namespace.
OtherMetrics == SelectSeq(plast.arg[1], LAMBDA m : m.namespace # "transactions")

C33_DiscardedWithoutChannel ==
    [][(plast'.op = "update_state" /\ IsNone(state_channel))
          => UNCHANGED <<state, state_channel, pending_validations, pending_sampling,
                         rate_limits, delivered, flushed>>]_vars

\* update_state found no channel and discarded a valid state fetched later
\* than the held one, which is invalid, while a rate limit was cached.
C33_Witness ==
    /\ plast.op = "update_state"
    /\ plast.pre_channel = "none"
    /\ IsNone(state_channel)
    /\ IsSome(state)
    /\ state[1].invalid
    /\ ~plast.arg[1].invalid
    /\ plast.arg[1].last_fetch > state[1].last_fetch
    /\ rate_limits # <<>>

(***************************************************************************)
(* Claims about the sampling state added by flush_sampling.                *)
(***************************************************************************)
\* The messages flush_sampling sent to the processor in the step.
SentForSampling ==
    {i \in (Len(flushed) + 1)..Len(flushed') : flushed'[i].via = "sampling"}

C35_NoStrandedEnvelopes ==
    (pending_validations # <<>> \/ pending_sampling # <<>>) =>
        /\ IsSome(state_channel)
        /\ upstream[state_channel[1].no_cache] > 0

\* An envelope waits for sampling behind a fetch that an answer without
\* no_cache could not complete.
C35_Witness ==
    /\ pending_sampling # <<>>
    /\ pending_validations = <<>>
    /\ plast.op = "update_state"
    /\ ~plast.no_cache
    /\ IsSome(state_channel)
    /\ upstream[TRUE] > 0

(***************************************************************************)
(* Claims about the RequestUpdate messages of one fetch channel; the       *)
(* channel's field requested lists the flags of those sent since it was    *)
(* created.                                                                *)
(***************************************************************************)
RequestedBy(channel) == IF IsSome(channel) THEN channel[1].requested ELSE <<>>

\* C36: debounce bound. Between the creation of a fetch channel and its
\* consumption by update_state at most two RequestUpdate messages are sent:
\* at most one with no_cache = false, at most one with no_cache = true, the
\* latter never before the former; and the channel's no_cache flag never
\* changes from true back to false.
C36_DebounceBound ==
    [][/\ IsSome(state_channel') =>
             /\ state_channel'[1].requested \in {<<FALSE>>, <<TRUE>>, <<FALSE, TRUE>>}
             /\ nfetch' - nfetch = Len(state_channel'[1].requested)
                                      - Len(RequestedBy(state_channel))
       /\ (IsSome(state_channel) /\ IsSome(state_channel') /\ state_channel[1].no_cache)
             => state_channel'[1].no_cache]_vars

\* A request with no_cache = true that was not throttled met a channel that
\* had been upgraded before: it sent nothing, the channel's two messages
\* being the second and the third of the project.
C36_Witness ==
    /\ plast.op = "prefetch"
    /\ plast.no_cache
    /\ plast.effective
    /\ plast.sent = <<>>
    /\ IsSome(state_channel)
    /\ state_channel[1].requested = <<FALSE, TRUE>>
    /\ nfetch = 3

(***************************************************************************)
(* Claims about update_state keeping the prior state.                      *)
(***************************************************************************)
\* The step is an update_state that does not return early, is given an
\* invalid state and finds a prior state that is Updated or Stale.
RetainsPrior ==
    /\ plast'.op = "update_state"
    /\ IsSome(state_channel)
    /\ ~(state_channel[1].no_cache /\ ~plast'.no_cache)
    /\ plast'.arg[1].invalid
    /\ expiry_state(state, clock) \in {"Updated", "Stale"}

\* The step consumes the channel, keeps the prior state, empties both queues
\* and sends the prior state to exactly the senders attached to the channel.
CompletesWithPrior ==
    /\ state' = state
    /\ state_channel' = None
    /\ pending_validations' = <<>>
    /\ pending_sampling' = <<>>
    /\ Len(flushed') = Len(flushed) + Len(pending_validations) + Len(pending_sampling)
    /\ SubSeq(flushed', 1, Len(flushed)) = flushed
    /\ \A k \in 1..Len(pending_sampling) :
          LET r == flushed'[Len(flushed) + Len(pending_validations) + k]
          IN  /\ r.envelope = pending_sampling[k].id
              /\ r.via = "sampling"
              /\ r.sampling_project_state \in {None, state}
    /\ \A sender \in DOMAIN delivered :
          delivered'[sender] =
              IF \E i \in 1..Len(state_channel[1].senders) :
                     state_channel[1].senders[i] = sender
              THEN Append(delivered[sender], state[1])
              ELSE delivered[sender]

\* The record of the k-th queued envelope in the step's flushes.
FlushedQueued(k) == flushed'[Len(flushed) + k]

RECURSIVE Pow2(_)
Pow2(n) == IF n = 0 THEN 1 ELSE 2 * Pow2(n - 1)

Modulus == Pow2(WordBits)

Panicked == [panic |-> TRUE, wrapped |-> FALSE, value |-> 0]

Value(v) == [panic |-> FALSE, wrapped |-> FALSE, value |-> v]

\* An arithmetic result v of unsigned operands, before it is stored.
Unsigned(v, overflow_checks) ==
    IF v >= 0 /\ v < Modulus THEN Value(v)
    ELSE IF overflow_checks THEN Panicked
    ELSE [panic |-> FALSE, wrapped |-> TRUE, value |-> v % Modulus]

\* RedisQuota::shift
shift(window, organization_id) ==
    IF window = 0 THEN Panicked ELSE Value(organization_id % window)

\* RedisQuota::slot
slot(window, organization_id, timestamp, overflow_checks) ==
    LET sh == shift(window, organization_id)
        diff == Unsigned(timestamp - sh.value, overflow_checks)
    IN  IF sh.panic \/ diff.panic THEN Panicked
        ELSE [diff EXCEPT !.value = diff.value \div window]

\* RedisQuota::expiry
expiry(window, organization_id, timestamp, overflow_checks) ==
    LET sl == slot(window, organization_id, timestamp, overflow_checks)
        next_slot == Unsigned(sl.value + 1, overflow_checks)
        product == Unsigned(next_slot.value * window, overflow_checks)
        next_start == Unsigned(product.value + shift(window, organization_id).value,
                               overflow_checks)
    IN  IF sl.panic \/ next_slot.panic \/ product.panic \/ next_start.panic THEN Panicked
        ELSE [next_start EXCEPT !.wrapped =
                 sl.wrapped \/ next_slot.wrapped \/ product.wrapped \/ next_start.wrapped]

\* The quotas tried: an id, a window of 0..MaxWindow seconds.
ArithQuotas ==
    {Quota(Some("a"), {}, "Organization", None, Some(MaxLimit), Some(w), Some("org_quota")) :
        w \in 0..MaxWindow}

InitArith ==
    /\ redis = <<>>
    /\ max_limit = None
    /\ now = 0
    /\ last = NoCall
    /\ InitStoreVars
    /\ strict = <<>>
    /\ InitProjectVars

\* RedisQuota::new(quota, scoping, timestamp) followed by slot() and
\* expiry(), as is_rate_limited runs them for a tracked quota, in a build
\* with or without overflow checks.
WindowArithmetic(quota, organization_id, timestamp, overflow_checks) ==
    /\ IsTrackable(quota)
    /\ last' = [op |-> "expiry", quota |-> quota, organization_id |-> organization_id,
                timestamp |-> timestamp, overflow_checks |-> overflow_checks,
                shift |-> shift(quota.window[1], organization_id),
                slot |-> slot(quota.window[1], organization_id, timestamp, overflow_checks),
                expiry |-> expiry(quota.window[1], organization_id, timestamp,
                                  overflow_checks)]
    /\ UNCHANGED <<redis, max_limit, now, strict>>
    /\ UNCHANGED <<projectVars, storeVars>>

NextArith ==
    \E quota \in ArithQuotas, organization_id \in 0..MaxOrg, timestamp \in 0..MaxStamp,
       overflow_checks \in BOOLEAN :
        WindowArithmetic(quota, organization_id, timestamp, overflow_checks)

SpecArith == InitArith /\ [][NextArith]_vars

\* C39: window arithmetic is well defined and bounded. For every quota that
\* RedisQuota::new accepts, whatever its window, and every timestamp t and
\* organization id, shift, slot and expiry are computed without a division
\* by zero and without unsigned underflow, slot * window + shift <= t, and
\* t < expiry <= t + window, so that the seconds to retry after, expiry - t,
\* lie between 1 and window.
C39_WindowArithmetic ==
    last.op = "expiry"
        => /\ ~last.shift.panic /\ ~last.slot.panic /\ ~last.expiry.panic
           /\ ~last.slot.wrapped /\ ~last.expiry.wrapped
           /\ last.slot.value * last.quota.window[1] + last.shift.value <= last.timestamp
           /\ last.timestamp < last.expiry.value
           /\ last.expiry.value <= last.timestamp + last.quota.window[1]

(***************************************************************************)
(* The chunk loops of produce_attachment_chunks (store.rs:257-277) and of  *)
(* produce_replay_recording_chunks (store.rs:682-712), one iteration per   *)
(* step, with a producer that does not fail. The loop is followed for      *)
(* MaxIterations iterations.                                               *)
(***************************************************************************)
\* The payload lengths and chunk sizes of the attachments.
AttachmentLoops == {<<"attachment", n, c>> : n \in 0..MaxSize, c \in 0..MaxChunkSize}

\* The payload lengths of the replay recordings, with their chunk size.
RecordingLoops == {<<"replay_recording", n, 1000 * 1000 - 2000>> : n \in RecordingSizes \cup {0}}

InitChunks ==
    /\ redis = <<>>
    /\ max_limit = None
    /\ now = StartTime
    /\ last = NoCall
    /\ InitStoreVars
    /\ strict = <<>>
    /\ InitProjectVars

\* The function is entered: chunk_index = 0, offset = 0, size = item.len().
EnterChunkLoop(kind, size, max_chunk_size) ==
    /\ store_call.op = "none"
    /\ store_call' = [op |-> "chunking", kind |-> kind, size |-> size,
                      max_chunk_size |-> max_chunk_size, offset |-> 0, chunk_index |-> 0,
                      chunk_sizes |-> <<>>]
    /\ UNCHANGED <<limiterVars, projectVars, uuids>>

\* One iteration of the while loop: offset < size, a chunk of
\* min(max_chunk_size, size - offset) bytes is published.
ChunkIteration ==
    /\ store_call.op = "chunking"
    /\ store_call.offset < store_call.size
    /\ store_call.chunk_index < MaxIterations
    /\ LET chunk_size == Min(store_call.max_chunk_size, store_call.size - store_call.offset)
       IN  store_call' = [store_call EXCEPT !.offset = @ + chunk_size,
                                            !.chunk_index = @ + 1,
                                            !.chunk_sizes = Append(@, chunk_size)]
    /\ UNCHANGED <<limiterVars, projectVars, uuids>>

\* The loop's condition fails: the function returns chunks = chunk_index.
LeaveChunkLoop ==
    /\ store_call.op = "chunking"
    /\ ~(store_call.offset < store_call.size)
    /\ store_call' = [store_call EXCEPT !.op = "chunked"]
    /\ UNCHANGED <<limiterVars, projectVars, uuids>>

NextChunks ==
    \/ \E l \in AttachmentLoops \cup RecordingLoops : EnterChunkLoop(l[1], l[2], l[3])
    \/ ChunkIteration
    \/ LeaveChunkLoop
    \/ StoreReturned

SpecChunks == InitChunks /\ [][NextChunks]_vars

\* C40: chunk loops terminate. For every payload length n and every chunk
\* size c, any non-negative byte count for attachments and 998,000 for
\* replay recordings, the loop runs at most ceil(n/c) iterations, which is
\* at most n, and has run exactly ceil(n/c) of them when it is left; every
\* published chunk has between 1 and c bytes, only the last may have fewer
\* than c, and offset never exceeds n.
C40_ChunkLoops ==
    store_call.op \in {"chunking", "chunked"}
        => /\ store_call.offset <= store_call.size
           /\ store_call.chunk_index <= store_call.size
           /\ \A i \in 1..Len(store_call.chunk_sizes) :
                 /\ store_call.chunk_sizes[i] >= 1
                 /\ store_call.chunk_sizes[i] <= store_call.max_chunk_size
                 /\ i < Len(store_call.chunk_sizes)
                      => store_call.chunk_sizes[i] = store_call.max_chunk_size
           /\ store_call.op = "chunked"
                 => /\ store_call.chunk_index * store_call.max_chunk_size >= store_call.size
                    /\ store_call.chunk_index > 0
                          => (store_call.chunk_index - 1) * store_call.max_chunk_size
                                 < store_call.size

====
